---------------------------- MODULE Spec2Model ----------------------------
(***************************************************************************)
(* A model of the infix expression calculator of lab5/cs480lab5main.py:    *)
(* calculate(expression) = get_tokens, check_correctness, evaluate, with   *)
(* the process-wide timeout guard check_timeout.                           *)
(*                                                                         *)
(* Text is a sequence of one-character strings.  A token or tree node is   *)
(* a record: a number [k |-> "num", int, n, d] (the value n/d in lowest    *)
(* terms, int = TRUE for a Python int and FALSE for a Decimal), a string   *)
(* token [k |-> "sym", s] (operator, bracket or function name), or a       *)
(* nested Python list [k |-> "list", items].                               *)
(*                                                                         *)
(* Numbers are exact rationals inside a window: numerator magnitude and    *)
(* denominator at most MaxMag.  Whatever the program would compute with    *)
(* rounding (a quotient that does not terminate, a transcendental function *)
(* value, a fractional power) or beyond the window is reported by the      *)
(* outcome "beyond"; the input families only hold texts whose evaluation   *)
(* stays inside the window, so every value of the model is the exact value *)
(* the program computes.                                                   *)
(***************************************************************************)
EXTENDS Integers, Sequences, FiniteSets, TLC

FUNCTION_NAMES == {"sin", "cos", "tan", "cot", "ln", "log"}

SUCCESS == 0
INVALID_EXPRESSION == 1
VALUE_ERROR == 2
ZERO_DIVISION_ERROR == 3
OVERFLOW_ERROR == 4
TIMEOUT_ERROR == 5
MEMORY_ERROR == 6

\* check_timeout reads the clock when call_count wraps: (call_count + 1) & 0b1111111111
GuardWrap == 1024

\* the window of the model's exact arithmetic
MaxMag == 30000

\* the default context of the decimal module: a result whose adjusted
\* exponent is above Emax is a decimal.Overflow
Emax == 999999

(***************************************************************************)
(* Numbers                                                                 *)
(***************************************************************************)
Abs(x) == IF x < 0 THEN -x ELSE x

RECURSIVE Gcd(_, _)
Gcd(a, b) == IF b = 0 THEN a ELSE Gcd(b, a % b)

\* the int or Decimal with value n/d (d > 0), in lowest terms
Num(isInt, n, d) ==
    LET g == Gcd(Abs(n), d)
    IN  [k |-> "num", int |-> isInt, n |-> n \div g, d |-> d \div g]

IntNum(n) == [k |-> "num", int |-> TRUE, n |-> n, d |-> 1]
DecNum(n, d) == Num(FALSE, n, d)

InWindow(x) == Abs(x.n) <= MaxMag /\ x.d <= MaxMag

IsZero(x) == x.n = 0
IsNegative(x) == x.n < 0
Less(x, y) == x.n * y.d < y.n * x.d
\* Python's == on numbers compares values, not types: 1 == Decimal(1)
NumEq(x, y) == x.n = y.n /\ x.d = y.d

\* outcomes of a computation: a value, a raised exception, or "beyond" the window
Ok(v) == [st |-> "ok", v |-> v]
Raise(e) == [st |-> e, v |-> IntNum(0)]
Beyond == [st |-> "beyond", v |-> IntNum(0)]
Windowed(v) == IF InWindow(v) THEN Ok(v) ELSE Beyond

RECURSIVE OnlyFactors(_, _)
\* TRUE iff d is a product of the primes in ps
OnlyFactors(d, ps) ==
    IF d = 1 THEN TRUE
    ELSE IF \E p \in ps : d % p = 0
         THEN OnlyFactors(d \div (CHOOSE p \in ps : d % p = 0), ps)
         ELSE FALSE

\* x + y, x - y, x * y: an int only when both operands are ints
Add(x, y) ==
    IF ~InWindow(x) \/ ~InWindow(y) THEN Beyond
    ELSE Windowed(Num(x.int /\ y.int, x.n * y.d + y.n * x.d, x.d * y.d))
Sub(x, y) ==
    IF ~InWindow(x) \/ ~InWindow(y) THEN Beyond
    ELSE Windowed(Num(x.int /\ y.int, x.n * y.d - y.n * x.d, x.d * y.d))
Mul(x, y) ==
    IF ~InWindow(x) \/ ~InWindow(y) THEN Beyond
    ELSE Windowed(Num(x.int /\ y.int, x.n * y.n, x.d * y.d))
Neg(x) == [x EXCEPT !.n = -x.n]

\* the exact quotient x / y for y # 0
Quotient(x, y) ==
    IF y.n < 0 THEN DecNum(-(x.n * y.d), x.d * (-y.n))
    ELSE DecNum(x.n * y.d, x.d * y.n)

\* a division that gives an int when two ints divide evenly
TrueDivWhole(x, y) ==
    IF ~InWindow(x) \/ ~InWindow(y) THEN Beyond
    ELSE IF IsZero(y)
    THEN IF IsZero(x) /\ ~(x.int /\ y.int) THEN Raise("InvalidOperation")
         ELSE Raise("ZeroDivisionError")
    ELSE LET q == Quotient(x, y)
         IN  IF x.int /\ y.int /\ q.d = 1 THEN Ok(IntNum(q.n))
             ELSE IF OnlyFactors(q.d, {2, 5}) THEN Windowed(q) ELSE Beyond

\* Decimal(x / y): float division of two ints, Decimal division otherwise
TrueDiv(x, y) ==
    IF ~InWindow(x) \/ ~InWindow(y) THEN Beyond
    ELSE IF x.int /\ y.int
    THEN IF IsZero(y) THEN Raise("ZeroDivisionError")
         ELSE LET q == Quotient(x, y)
              IN  IF OnlyFactors(q.d, {2}) THEN Windowed(q) ELSE Beyond
    ELSE IF IsZero(y)
         THEN IF IsZero(x) THEN Raise("InvalidOperation")  \* decimal.DivisionUndefined
              ELSE Raise("ZeroDivisionError")              \* decimal.DivisionByZero
         ELSE LET q == Quotient(x, y)
              IN  IF OnlyFactors(q.d, {2, 5}) THEN Windowed(q) ELSE Beyond

(***************************************************************************)
(* The lexer                                                               *)
(***************************************************************************)
Sym(s) == [k |-> "sym", s |-> s]
List(items) == [k |-> "list", items |-> items]
IsNum(t) == t.k = "num"
IsList(t) == t.k = "list"
IsSym(t, s) == t.k = "sym" /\ t.s = s
IsSymIn(t, S) == t.k = "sym" /\ t.s \in S

OperatorOrBracketChars == {"+", "-", "*", "/", "^", "(", ")", "{", "}"}
DigitChars == {"0", "1", "2", "3", "4", "5", "6", "7", "8", "9"}
NumberChars == DigitChars \cup {"."}

\* ord(char) - ord("0")
DigitValue(c) ==
    CASE c = "0" -> 0 [] c = "1" -> 1 [] c = "2" -> 2 [] c = "3" -> 3
      [] c = "4" -> 4 [] c = "5" -> 5 [] c = "6" -> 6 [] c = "7" -> 7
      [] c = "8" -> 8 [] c = "9" -> 9

\* next(iterator, ""): pos is the number of characters already taken
NextChar(expression, pos) ==
    IF pos < Len(expression) THEN expression[pos + 1] ELSE ""
Advance(expression, pos) == IF pos < Len(expression) THEN pos + 1 ELSE pos

RECURSIVE DigitsLoop(_, _, _)
\* the for loop of get_int_or_decimal_from_string from character i on
DigitsLoop(number_string, i, acc) ==
    IF i > Len(number_string) THEN acc
    ELSE LET char == number_string[i]
         IN  IF char = "."
             THEN DigitsLoop(number_string, i + 1, [acc EXCEPT !.dot_seen = TRUE])
             ELSE IF ~acc.dot_seen
             THEN DigitsLoop(number_string, i + 1,
                     [acc EXCEPT !.left_of_decimal = @ * 10 + DigitValue(char)])
             ELSE DigitsLoop(number_string, i + 1,
                     [acc EXCEPT !.right_of_decimal = @ * 10 + DigitValue(char),
                                 !.divide_by = @ * 10])

\* a conversion that gives an int when no digit follows the dot
get_int_or_decimal_from_stringTrimmed(number_string) ==
    LET acc == DigitsLoop(number_string, 1,
                   [left_of_decimal |-> 0, right_of_decimal |-> 0,
                    dot_seen |-> FALSE, divide_by |-> 1])
    IN  IF acc.dot_seen /\ acc.divide_by > 1
        THEN DecNum(acc.left_of_decimal * acc.divide_by + acc.right_of_decimal,
                    acc.divide_by)
        ELSE IntNum(acc.left_of_decimal)

get_int_or_decimal_from_string(number_string) ==
    LET acc == DigitsLoop(number_string, 1,
                   [left_of_decimal |-> 0, right_of_decimal |-> 0,
                    dot_seen |-> FALSE, divide_by |-> 1])
    IN  IF acc.dot_seen
        THEN DecNum(acc.left_of_decimal * acc.divide_by + acc.right_of_decimal,
                    acc.divide_by)
        ELSE IntNum(acc.left_of_decimal)

(***************************************************************************)
(* The same conversion on literals of any length.  A Python int has no     *)
(* bound: it is the sequence of its digits, without leading zeros.  A      *)
(* Decimal is a coefficient, such a sequence, and an exponent of ten.      *)
(***************************************************************************)
\* decimal.getcontext().prec, which the module never changes
Precision == 28

RECURSIVE StripZeros(_)
StripZeros(ds) == IF ds # <<>> /\ Head(ds) = 0 THEN StripZeros(Tail(ds)) ELSE ds

RECURSIVE Zeros(_)
Zeros(n) == IF n <= 0 THEN <<>> ELSE <<0>> \o Zeros(n - 1)

RECURSIVE Increment(_)
\* the digits of the int ds + 1
Increment(ds) ==
    IF ds = <<>> THEN <<1>>
    ELSE LET front == SubSeq(ds, 1, Len(ds) - 1)
             last == ds[Len(ds)]
         IN  IF last < 9 THEN Append(front, last + 1) ELSE Append(Increment(front), 0)

RECURSIVE AddAligned(_, _, _)
\* the digits of a + b + carry for a and b of one length
AddAligned(a, b, carry) ==
    IF a = <<>> THEN IF carry = 0 THEN <<>> ELSE <<carry>>
    ELSE LET sum == a[Len(a)] + b[Len(b)] + carry
         IN  Append(AddAligned(SubSeq(a, 1, Len(a) - 1), SubSeq(b, 1, Len(b) - 1), sum \div 10),
                    sum % 10)

\* the digits of the int a + b
AddDigits(a, b) ==
    StripZeros(AddAligned(Zeros(Len(b) - Len(a)) \o a, Zeros(Len(a) - Len(b)) \o b, 0))

\* the Decimal of a result with this coefficient and exponent: rounded to
\* Precision significant digits, half to even
Rounded(coefficient, exponent) ==
    IF Len(coefficient) <= Precision THEN [coefficient |-> coefficient, exponent |-> exponent]
    ELSE LET kept == SubSeq(coefficient, 1, Precision)
             dropped == SubSeq(coefficient, Precision + 1, Len(coefficient))
             up == \/ dropped[1] > 5
                   \/ /\ dropped[1] = 5
                      /\ \/ \E i \in 2..Len(dropped) : dropped[i] # 0
                         \/ kept[Precision] % 2 = 1
         IN  [coefficient |-> IF up THEN Increment(kept) ELSE kept,
              exponent |-> exponent + Len(dropped)]

RECURSIVE Normal(_, _)
\* the same value without trailing zeros in its coefficient
Normal(coefficient, exponent) ==
    IF coefficient = <<>> THEN [coefficient |-> <<>>, exponent |-> 0]
    ELSE IF coefficient[Len(coefficient)] = 0
    THEN Normal(SubSeq(coefficient, 1, Len(coefficient) - 1), exponent + 1)
    ELSE [coefficient |-> coefficient, exponent |-> exponent]

RECURSIVE LongDigitsLoop(_, _, _)
\* the for loop of get_int_or_decimal_from_string; divide_by is 10 to the
\* power acc.places
LongDigitsLoop(number_string, i, acc) ==
    IF i > Len(number_string) THEN acc
    ELSE LET char == number_string[i]
         IN  IF char = "."
             THEN LongDigitsLoop(number_string, i + 1, [acc EXCEPT !.dot_seen = TRUE])
             ELSE IF ~acc.dot_seen
             THEN LongDigitsLoop(number_string, i + 1,
                     [acc EXCEPT !.left_of_decimal = StripZeros(Append(@, DigitValue(char)))])
             ELSE LongDigitsLoop(number_string, i + 1,
                     [acc EXCEPT !.right_of_decimal = StripZeros(Append(@, DigitValue(char))),
                                 !.places = @ + 1])

\* Decimal(left_of_decimal) + (Decimal(right_of_decimal) / divide_by), or
\* left_of_decimal: the value returned, as an int or as a Decimal
LongValue(number_string) ==
    LET acc == LongDigitsLoop(number_string, 1,
                   [left_of_decimal |-> <<>>, right_of_decimal |-> <<>>,
                    dot_seen |-> FALSE, places |-> 0])
        quotient == Rounded(acc.right_of_decimal, -acc.places)
        sum == Rounded(AddDigits(acc.left_of_decimal \o Zeros(-quotient.exponent),
                                 quotient.coefficient),
                       quotient.exponent)
    IN  IF acc.dot_seen
        THEN [int |-> FALSE, value |-> Normal(sum.coefficient, sum.exponent)]
        ELSE [int |-> TRUE, value |-> Normal(acc.left_of_decimal, 0)]

RECURSIVE NumberRunDropping(_, _, _)
\* a number loop that does not hand on the character it read ahead
NumberRunDropping(expression, pos, acc) ==
    IF acc.next_char # "" /\ acc.next_char \in NumberChars
    THEN NumberRunDropping(expression, Advance(expression, pos),
            [number_chars |-> Append(acc.number_chars, acc.next_char),
             dots_seen |-> acc.dots_seen + (IF acc.next_char = "." THEN 1 ELSE 0),
             next_char |-> NextChar(expression, pos),
             pos |-> Advance(expression, pos)])
    ELSE [acc EXCEPT !.next_char = ""]

RECURSIVE NumberRun(_, _, _)
\* the while loop at the head of a number: the characters collected, the
\* character read ahead and the iterator position
NumberRun(expression, pos, acc) ==
    IF acc.next_char # "" /\ acc.next_char \in NumberChars
    THEN NumberRun(expression, Advance(expression, pos),
            [number_chars |-> Append(acc.number_chars, acc.next_char),
             dots_seen |-> acc.dots_seen + (IF acc.next_char = "." THEN 1 ELSE 0),
             next_char |-> NextChar(expression, pos),
             pos |-> Advance(expression, pos)])
    ELSE acc

RECURSIVE WrongRun(_, _, _)
\* the while loop that collects the rest of an unrecognized token: the
\* number of characters appended and the iterator position
WrongRun(expression, pos, n) ==
    LET c == NextChar(expression, pos)
    IN  IF c # "" /\ c \notin ({" "} \cup DigitChars \cup OperatorOrBracketChars)
        THEN WrongRun(expression, Advance(expression, pos), n + 1)
        ELSE [n |-> n, pos |-> Advance(expression, pos)]

EndToken == [k |-> "end"]
WrongToken == [k |-> "wrong"]

\* get_next_token: token, read_successfully, next_char, the iterator
\* position afterwards and g, the number of check_timeout calls made
get_next_token(expression, pos0, next_char0) ==
    LET next_char == IF next_char0 = "" THEN NextChar(expression, pos0) ELSE next_char0
        pos == IF next_char0 = "" THEN Advance(expression, pos0) ELSE pos0
        c2 == NextChar(expression, pos)
        c3 == NextChar(expression, Advance(expression, pos))
        pos2 == Advance(expression, pos)
        pos3 == Advance(expression, pos2)
        Got(s, p) == [token |-> Sym(s), read_successfully |-> TRUE, next_char |-> "",
                      pos |-> p, g |-> 0]
        Wrong(p) == LET w == WrongRun(expression, p, 0)
                    IN  [token |-> WrongToken, read_successfully |-> FALSE,
                         next_char |-> "", pos |-> w.pos, g |-> w.n]
    IN  IF next_char = ""
        THEN [token |-> EndToken, read_successfully |-> TRUE, next_char |-> "",
              pos |-> pos, g |-> 0]
        ELSE IF next_char \in OperatorOrBracketChars THEN Got(next_char, pos)
        ELSE IF next_char = "s"
        THEN IF c2 = "i" /\ c3 = "n" THEN Got("sin", pos3) ELSE Wrong(pos3)
        ELSE IF next_char = "t"
        THEN IF c2 = "a" /\ c3 = "n" THEN Got("tan", pos3) ELSE Wrong(pos3)
        ELSE IF next_char = "c"
        THEN IF c2 = "o" /\ c3 = "s" THEN Got("cos", pos3)
             ELSE IF c2 = "o" /\ c3 = "t" THEN Got("cot", pos3)
             ELSE Wrong(pos3)
        ELSE IF next_char = "l"
        THEN IF c2 = "n" THEN Got("ln", pos2)
             ELSE IF c2 = "o"
             THEN IF c3 = "g" THEN Got("log", pos3) ELSE Wrong(pos3)
             ELSE Wrong(pos2)
        ELSE IF next_char \in NumberChars
        THEN LET run == NumberRun(expression, pos,
                            [number_chars |-> <<>>, dots_seen |-> 0,
                             next_char |-> next_char, pos |-> pos])
                 len == Len(run.number_chars)
             IN  IF run.dots_seen < 2 /\ run.number_chars # <<".">>
                 THEN [token |-> get_int_or_decimal_from_string(run.number_chars),
                       read_successfully |-> TRUE, next_char |-> run.next_char,
                       pos |-> run.pos, g |-> len + len]
                 ELSE [token |-> WrongToken, read_successfully |-> FALSE,
                       next_char |-> "", pos |-> run.pos, g |-> len]
        ELSE Wrong(pos)

RECURSIVE TokensLoopPartial(_, _, _, _, _)
\* the while loop of get_tokens, keeping the tokens read before the one that
\* could not be read
TokensLoopPartial(expression, pos, next_char, tokens, g) ==
    LET r == get_next_token(expression, pos, next_char)
    IN  IF r.token.k # "end" /\ r.read_successfully
        THEN TokensLoopPartial(expression, r.pos, r.next_char, Append(tokens, r.token), g + r.g)
        ELSE [tokens |-> tokens, g |-> g + r.g]

RECURSIVE TokensLoop(_, _, _, _, _)
\* the while loop of get_tokens
TokensLoop(expression, pos, next_char, tokens, g) ==
    LET r == get_next_token(expression, pos, next_char)
    IN  IF r.token.k # "end" /\ r.read_successfully
        THEN TokensLoop(expression, r.pos, r.next_char, Append(tokens, r.token), g + r.g)
        ELSE [tokens |-> IF r.read_successfully THEN tokens ELSE <<>>, g |-> g + r.g]

RECURSIVE WithoutSpaces(_)
\* expression.replace(" ", "")
WithoutSpaces(expression) ==
    IF expression = <<>> THEN <<>>
    ELSE IF Head(expression) = " " THEN WithoutSpaces(Tail(expression))
    ELSE <<Head(expression)>> \o WithoutSpaces(Tail(expression))

\* get_tokens: the token list (empty when a token could not be read) and g,
\* the number of check_timeout calls made
get_tokens(expression0) ==
    LET e1 == WithoutSpaces(expression0)
        expression == IF e1 # <<>> /\ e1[Len(e1)] = "="
                      THEN SubSeq(e1, 1, Len(e1) - 1) ELSE e1
    IN  IF expression # <<>> THEN TokensLoop(expression, 0, "", <<>>, 0)
        ELSE [tokens |-> <<>>, g |-> 0]

(***************************************************************************)
(* The validators                                                          *)
(***************************************************************************)
Operators == {"+", "-", "*", "/", "^"}
OpenBrackets == {"(", "{"}
CloseBrackets == {")", "}"}

RECURSIVE ParensStackLoopAnyKind(_, _, _)
\* the first loop of check_parens_correctness without the comparison of the
\* closing bracket with the top of parens_stack
ParensStackLoopAnyKind(tokens, i, parens_stack) ==
    IF i > Len(tokens)
    THEN [result |-> parens_stack = <<>>, g |-> Len(tokens)]
    ELSE LET token == tokens[i]
         IN  IF ~IsSymIn(token, OpenBrackets \cup CloseBrackets)
             THEN ParensStackLoopAnyKind(tokens, i + 1, parens_stack)
             ELSE IF IsSymIn(token, OpenBrackets)
             THEN ParensStackLoopAnyKind(tokens, i + 1, Append(parens_stack, token.s))
             ELSE IF parens_stack = <<>>
             THEN [result |-> FALSE, g |-> i]
             ELSE ParensStackLoopAnyKind(tokens, i + 1,
                      SubSeq(parens_stack, 1, Len(parens_stack) - 1))

RECURSIVE ParensStackLoop(_, _, _)
\* the first loop of check_parens_correctness, at token i with parens_stack
ParensStackLoop(tokens, i, parens_stack) ==
    IF i > Len(tokens)
    THEN [result |-> parens_stack = <<>>, g |-> Len(tokens)]
    ELSE LET token == tokens[i]
         IN  IF ~IsSymIn(token, OpenBrackets \cup CloseBrackets)
             THEN ParensStackLoop(tokens, i + 1, parens_stack)
             ELSE IF IsSymIn(token, OpenBrackets)
             THEN ParensStackLoop(tokens, i + 1, Append(parens_stack, token.s))
             ELSE IF \/ parens_stack = <<>>
                     \/ (token.s = ")" /\ parens_stack[Len(parens_stack)] # "(")
                     \/ (token.s = "}" /\ parens_stack[Len(parens_stack)] # "{")
             THEN [result |-> FALSE, g |-> i]
             ELSE ParensStackLoop(tokens, i + 1,
                      SubSeq(parens_stack, 1, Len(parens_stack) - 1))

\* tokens[next_idx] of the second loop (next_idx counts from 0): reading
\* past the end raises IndexError
TokenAt(tokens, next_idx) ==
    IF next_idx < Len(tokens) THEN tokens[next_idx + 1] ELSE [k |-> "IndexError"]

RECURSIVE ParensShapeLoopRoundOnly(_, _)
\* the second loop of check_parens_correctness without its test for {}
ParensShapeLoopRoundOnly(tokens, next_idx) ==
    IF next_idx > Len(tokens) THEN [result |-> TRUE, exc |-> "", g |-> Len(tokens)]
    ELSE LET token == tokens[next_idx]
         IN  IF /\ IsSymIn(token, FUNCTION_NAMES)
                /\ next_idx < Len(tokens)
                /\ ~IsSym(tokens[next_idx + 1], "(")
             THEN [result |-> FALSE, exc |-> "", g |-> next_idx]
             ELSE IF IsSymIn(token, OpenBrackets) /\ TokenAt(tokens, next_idx).k = "IndexError"
             THEN [result |-> FALSE, exc |-> "IndexError", g |-> next_idx]
             ELSE IF IsSym(token, "(") /\ IsSym(TokenAt(tokens, next_idx), ")")
             THEN [result |-> FALSE, exc |-> "", g |-> next_idx]
             ELSE ParensShapeLoopRoundOnly(tokens, next_idx + 1)

RECURSIVE ParensShapeLoop(_, _)
\* the second loop of check_parens_correctness: the token at index
\* next_idx - 1 against the one at next_idx
ParensShapeLoop(tokens, next_idx) ==
    IF next_idx > Len(tokens) THEN [result |-> TRUE, exc |-> "", g |-> Len(tokens)]
    ELSE LET token == tokens[next_idx]
         IN  IF /\ IsSymIn(token, FUNCTION_NAMES)
                /\ next_idx < Len(tokens)
                /\ ~IsSym(tokens[next_idx + 1], "(")
             THEN [result |-> FALSE, exc |-> "", g |-> next_idx]
             ELSE IF IsSymIn(token, OpenBrackets) /\ TokenAt(tokens, next_idx).k = "IndexError"
             THEN [result |-> FALSE, exc |-> "IndexError", g |-> next_idx]
             ELSE IF IsSym(token, "(") /\ IsSym(TokenAt(tokens, next_idx), ")")
             THEN [result |-> FALSE, exc |-> "", g |-> next_idx]
             ELSE IF IsSym(token, "{") /\ IsSym(TokenAt(tokens, next_idx), "}")
             THEN [result |-> FALSE, exc |-> "", g |-> next_idx]
             ELSE ParensShapeLoop(tokens, next_idx + 1)

\* check_parens_correctness: the result, the exception raised if any, and g,
\* the number of check_timeout calls made
check_parens_correctness(tokens) ==
    LET first == ParensStackLoop(tokens, 1, <<>>)
    IN  IF ~first.result THEN [result |-> FALSE, exc |-> "", g |-> first.g]
        ELSE LET second == ParensShapeLoop(tokens, 1)
             IN  [second EXCEPT !.g = @ + first.g]

RECURSIVE recursive_check_correctnessAnyOperator(_, _, _, _)
\* recursive_check_correctness without the test that refuses *, / and ^
\* where no operator is expected
recursive_check_correctnessAnyOperator(tokens, pos, operator_expected, g) ==
    IF pos >= Len(tokens)
    THEN [result |-> operator_expected, pos |-> pos, g |-> g]
    ELSE LET token == tokens[pos + 1]
         IN  IF IsSymIn(token, OpenBrackets)
             THEN LET inner == recursive_check_correctnessAnyOperator(tokens, pos + 1, FALSE, g + 1)
                  IN  IF ~inner.result THEN inner
                      ELSE recursive_check_correctnessAnyOperator(tokens, inner.pos, TRUE, inner.g)
             ELSE IF IsSymIn(token, CloseBrackets)
             THEN [result |-> operator_expected, pos |-> pos + 1, g |-> g + 1]
             ELSE IF operator_expected /\ ~IsSymIn(token, Operators)
             THEN [result |-> FALSE, pos |-> pos + 1, g |-> g + 1]
             ELSE IF IsNum(token)
             THEN recursive_check_correctnessAnyOperator(tokens, pos + 1, TRUE, g + 1)
             ELSE IF IsSymIn(token, Operators)
             THEN recursive_check_correctnessAnyOperator(tokens, pos + 1, FALSE, g + 1)
             ELSE recursive_check_correctnessAnyOperator(tokens, pos + 1, operator_expected, g + 1)

RECURSIVE recursive_check_correctness(_, _, _, _)
\* recursive_check_correctness on the shared iterator, pos tokens of which
\* are already taken: the result, the iterator position and g
recursive_check_correctness(tokens, pos, operator_expected, g) ==
    IF pos >= Len(tokens)
    THEN [result |-> operator_expected, pos |-> pos, g |-> g]
    ELSE LET token == tokens[pos + 1]
         IN  IF IsSymIn(token, OpenBrackets)
             THEN LET inner == recursive_check_correctness(tokens, pos + 1, FALSE, g + 1)
                  IN  IF ~inner.result THEN inner
                      ELSE recursive_check_correctness(tokens, inner.pos, TRUE, inner.g)
             ELSE IF IsSymIn(token, CloseBrackets)
             THEN [result |-> operator_expected, pos |-> pos + 1, g |-> g + 1]
             ELSE IF operator_expected /\ ~IsSymIn(token, Operators)
             THEN [result |-> FALSE, pos |-> pos + 1, g |-> g + 1]
             ELSE IF ~operator_expected /\ IsSymIn(token, {"*", "/", "^"})
             THEN [result |-> FALSE, pos |-> pos + 1, g |-> g + 1]
             ELSE IF IsNum(token)
             THEN recursive_check_correctness(tokens, pos + 1, TRUE, g + 1)
             ELSE IF IsSymIn(token, Operators)
             THEN recursive_check_correctness(tokens, pos + 1, FALSE, g + 1)
             ELSE recursive_check_correctness(tokens, pos + 1, operator_expected, g + 1)

\* check_correctness: the result, the result of check_parens_correctness,
\* the exception raised if any, and g
check_correctness(tokens) ==
    LET parens == check_parens_correctness(tokens)
    IN  IF parens.exc # "" \/ ~parens.result
        THEN [result |-> FALSE, parens |-> parens.result, exc |-> parens.exc,
              g |-> parens.g]
        ELSE LET r == recursive_check_correctness(tokens, 0, FALSE, 0)
             IN  [result |-> r.result, parens |-> TRUE, exc |-> "", g |-> parens.g + r.g]

(***************************************************************************)
(* The restructurer.  Each rewrite gives the new list (items), the number  *)
(* g of check_timeout calls made so far, and exc, the exception raised by  *)
(* a next() on an exhausted iterator or a pop() from an empty list ("" if  *)
(* none).                                                                  *)
(***************************************************************************)
\* a reversal that leaves the order as it is
Forward(seq) == seq

RECURSIVE Reverse(_)
Reverse(seq) == IF seq = <<>> THEN <<>> ELSE Append(Reverse(Tail(seq)), Head(seq))

RECURSIVE nest_parenthesized_expressions(_, _, _, _)
\* on the shared iterator, pos tokens of which are already taken
nest_parenthesized_expressions(tokens, pos, easier_tokens, g) ==
    IF pos >= Len(tokens)
    THEN [items |-> easier_tokens, pos |-> pos, g |-> g]
    ELSE LET token == tokens[pos + 1]
         IN  IF IsSymIn(token, CloseBrackets)
             THEN [items |-> easier_tokens, pos |-> pos + 1, g |-> g + 1]
             ELSE IF IsSymIn(token, OpenBrackets)
             THEN LET inner == nest_parenthesized_expressions(tokens, pos + 1, <<>>, g + 1)
                  IN  nest_parenthesized_expressions(tokens, inner.pos,
                          Append(easier_tokens, List(inner.items)), inner.g)
             ELSE nest_parenthesized_expressions(tokens, pos + 1,
                      Append(easier_tokens, token), g + 1)

\* the exception of iter(x) for an x that is no list
IterExc(x) == IF IsNum(x) THEN "TypeError" ELSE "unmodelled"

RECURSIVE nest_functions(_, _, _, _)
\* the for loop of nest_functions at element i of items
nest_functions(items, i, easier_tokens, g) ==
    IF i > Len(items) THEN [items |-> easier_tokens, g |-> g, exc |-> ""]
    ELSE LET token == items[i]
         IN  IF IsList(token)
             THEN LET inner == nest_functions(token.items, 1, <<>>, g + 1)
                  IN  IF inner.exc # "" THEN inner
                      ELSE nest_functions(items, i + 1,
                               Append(easier_tokens, List(inner.items)), inner.g)
             ELSE IF IsSymIn(token, FUNCTION_NAMES)
             THEN IF i + 1 > Len(items)
                  THEN [items |-> easier_tokens, g |-> g + 1, exc |-> "StopIteration"]
                  ELSE IF ~IsList(items[i + 1])
                  THEN [items |-> easier_tokens, g |-> g + 1, exc |-> IterExc(items[i + 1])]
                  ELSE LET inner == nest_functions(items[i + 1].items, 1, <<>>, g + 1)
                       IN  IF inner.exc # "" THEN inner
                           ELSE nest_functions(items, i + 2,
                                    Append(easier_tokens, List(<<token, List(inner.items)>>)),
                                    inner.g)
             ELSE nest_functions(items, i + 1, Append(easier_tokens, token), g + 1)

RECURSIVE PopSigns(_, _, _)
\* "adding exponent and any unary operators": pops easier_tokens into
\* nested_exponentiation up to and including the first token that is no sign
PopSigns(easier_tokens, nested_exponentiation, g) ==
    IF easier_tokens = <<>>
    THEN [easier |-> easier_tokens, nested |-> nested_exponentiation, g |-> g,
          exc |-> "IndexError"]
    ELSE LET previously_added_token == easier_tokens[Len(easier_tokens)]
             rest == SubSeq(easier_tokens, 1, Len(easier_tokens) - 1)
         IN  IF IsSymIn(previously_added_token, {"+", "-"})
             THEN PopSigns(rest, Append(nested_exponentiation, previously_added_token), g + 1)
             ELSE [easier |-> rest,
                   nested |-> Append(nested_exponentiation, previously_added_token),
                   g |-> g, exc |-> ""]

RECURSIVE nest_exponentiation(_, _, _, _)
\* the for loop of nest_exponentiation at element i of the reversed list
nest_exponentiation(reversed, i, easier_tokens, g) ==
    IF i > Len(reversed) THEN [items |-> Reverse(easier_tokens), g |-> g, exc |-> ""]
    ELSE LET token == reversed[i]
         IN  IF IsList(token)
             THEN LET inner == nest_exponentiation(Reverse(token.items), 1, <<>>, g + 1)
                  IN  IF inner.exc # "" THEN inner
                      ELSE nest_exponentiation(reversed, i + 1,
                               Append(easier_tokens, List(inner.items)), inner.g)
             ELSE IF ~IsSym(token, "^")
             THEN nest_exponentiation(reversed, i + 1, Append(easier_tokens, token), g + 1)
             ELSE IF i + 1 > Len(reversed)
             THEN [items |-> easier_tokens, g |-> g + 1, exc |-> "StopIteration"]
             ELSE LET raw_base == reversed[i + 1]
                      base == IF IsList(raw_base)
                              THEN nest_exponentiation(Reverse(raw_base.items), 1, <<>>, g + 1)
                              ELSE [items |-> <<>>, g |-> g + 1, exc |-> ""]
                      base_token == IF IsList(raw_base) THEN List(base.items) ELSE raw_base
                  IN  IF base.exc # "" THEN base
                      ELSE LET popped == PopSigns(easier_tokens, <<base_token, token>>, base.g)
                           IN  IF popped.exc # ""
                               THEN [items |-> easier_tokens, g |-> popped.g,
                                     exc |-> popped.exc]
                               ELSE nest_exponentiation(reversed, i + 2,
                                        Append(popped.easier, List(popped.nested)), popped.g)

\* the factor for an odd number of minuses, with its sign lost
LostMinusOne == IntNum(1)

MinusOne == IntNum(-1)

RECURSIVE convert_to_no_unaries(_, _, _, _, _)
\* the for loop of convert_to_no_unaries at element i of items
convert_to_no_unaries(items, i, easier_tokens, minuses_in_a_row, g) ==
    IF i > Len(items) THEN [items |-> easier_tokens, g |-> g, exc |-> ""]
    ELSE LET token == items[i]
             odd == minuses_in_a_row % 2 = 1
             \* "adding next operator": the element after the operand, as it is
             WithNext(added, j, g1) ==
                 convert_to_no_unaries(items, j + 1,
                     IF j <= Len(items) THEN Append(added, items[j]) ELSE added, 0, g1)
         IN  IF IsSym(token, "+")
             THEN convert_to_no_unaries(items, i + 1, easier_tokens, minuses_in_a_row, g + 1)
             ELSE IF IsSym(token, "-")
             THEN convert_to_no_unaries(items, i + 1, easier_tokens,
                      minuses_in_a_row + 1, g + 1)
             ELSE IF IsSymIn(token, FUNCTION_NAMES)
             THEN IF i + 1 > Len(items)
                  THEN [items |-> easier_tokens, g |-> g + 1, exc |-> "StopIteration"]
                  ELSE IF ~IsList(items[i + 1])
                  THEN [items |-> easier_tokens, g |-> g + 1, exc |-> IterExc(items[i + 1])]
                  ELSE LET inner == convert_to_no_unaries(items[i + 1].items, 1, <<>>, 0, g + 1)
                       IN  IF inner.exc # "" THEN inner
                           ELSE IF odd
                           THEN WithNext(Append(easier_tokens,
                                    List(<<MinusOne, Sym("*"), token, List(inner.items)>>)),
                                    i + 2, inner.g)
                           ELSE WithNext(easier_tokens \o <<token, List(inner.items)>>,
                                    i + 2, inner.g)
             ELSE IF IsList(token)
             THEN LET inner == convert_to_no_unaries(token.items, 1, <<>>, 0, g + 1)
                  IN  IF inner.exc # "" THEN inner
                      ELSE IF odd
                      THEN WithNext(Append(easier_tokens,
                               List(<<MinusOne, Sym("*"), List(inner.items)>>)), i + 1, inner.g)
                      ELSE WithNext(Append(easier_tokens, List(inner.items)), i + 1, inner.g)
             ELSE IF odd
             THEN WithNext(Append(easier_tokens, List(<<MinusOne, Sym("*"), token>>)),
                      i + 1, g + 1)
             ELSE WithNext(Append(easier_tokens, token), i + 1, g + 1)

\* the rewrites of evaluate without nest_exponentiation
RestructureFlatPowers(tokens) ==
    LET parens == nest_parenthesized_expressions(tokens, 0, <<>>, 0)
        functions == nest_functions(parens.items, 1, <<>>, parens.g)
    IN  IF functions.exc # "" THEN functions
        ELSE convert_to_no_unaries(functions.items, 1, <<>>, 0, functions.g)

\* the rewrites of evaluate with convert_to_no_unaries before
\* nest_exponentiation
RestructureUnariesFirst(tokens) ==
    LET parens == nest_parenthesized_expressions(tokens, 0, <<>>, 0)
        functions == nest_functions(parens.items, 1, <<>>, parens.g)
        unaries == IF functions.exc # "" THEN functions
                   ELSE convert_to_no_unaries(functions.items, 1, <<>>, 0, functions.g)
    IN  IF unaries.exc # "" THEN unaries
        ELSE nest_exponentiation(Reverse(unaries.items), 1, <<>>, unaries.g)

\* the four rewrites of evaluate, in order
Restructure(tokens) ==
    LET parens == nest_parenthesized_expressions(tokens, 0, <<>>, 0)
        functions == nest_functions(parens.items, 1, <<>>, parens.g)
        exponents == IF functions.exc # "" THEN functions
                     ELSE nest_exponentiation(Reverse(functions.items), 1, <<>>, functions.g)
    IN  IF exponents.exc # "" THEN exponents
        ELSE convert_to_no_unaries(exponents.items, 1, <<>>, 0, exponents.g)

(***************************************************************************)
(* The evaluator.  Each procedure gives an outcome [st, v, g]: st is "ok"  *)
(* (v is the value), the name of the exception raised, or "beyond"; g is   *)
(* the number of check_timeout calls made so far.                          *)
(***************************************************************************)
Done(outcome, g) == [st |-> outcome.st, v |-> outcome.v, g |-> g]

One == DecNum(1, 1)
Ten == IntNum(10)

RECURSIVE Log10Exact(_, _, _)
\* k if x = 10^k for some 0 <= k <= limit, otherwise -1
Log10Exact(x, p, k) ==
    IF NumEq(x, p) THEN k
    ELSE IF Less(x, p) \/ ~InWindow(Mul(p, Ten).v) \/ Mul(p, Ten).st # "ok" THEN -1
    ELSE Log10Exact(x, Mul(p, Ten).v, k + 1)

\* function_mapping with logarithms that give 0 outside their domain instead
\* of raising ValueError
ApplyFunctionUnchecked(name, argument) ==
    CASE name = "sin" -> IF IsZero(argument) THEN Ok(DecNum(0, 1)) ELSE Beyond
      [] name = "cos" -> IF IsZero(argument) THEN Ok(DecNum(1, 1)) ELSE Beyond
      [] name = "tan" -> IF IsZero(argument) THEN Ok(DecNum(0, 1)) ELSE Beyond
      [] name = "cot" -> IF IsZero(argument) THEN Raise("ZeroDivisionError") ELSE Beyond
      [] name = "ln" -> IF IsZero(argument) \/ IsNegative(argument) THEN Ok(DecNum(0, 1))
                        ELSE IF NumEq(argument, One) THEN Ok(DecNum(0, 1))
                        ELSE Beyond
      [] name = "log" -> IF IsZero(argument) \/ IsNegative(argument) THEN Ok(DecNum(0, 1))
                         ELSE LET k == Log10Exact(argument, IntNum(1), 0)
                              IN  IF k >= 0 THEN Ok(DecNum(k, 1)) ELSE Beyond

\* Decimal(function(argument)) for the functions of function_mapping: the
\* value where the float result is exact, the exception math raises
ApplyFunction(name, argument) ==
    CASE name = "sin" -> IF IsZero(argument) THEN Ok(DecNum(0, 1)) ELSE Beyond
      [] name = "cos" -> IF IsZero(argument) THEN Ok(DecNum(1, 1)) ELSE Beyond
      [] name = "tan" -> IF IsZero(argument) THEN Ok(DecNum(0, 1)) ELSE Beyond
      \* cot(x) = Decimal(1 / tan(x)), a float division
      [] name = "cot" -> IF IsZero(argument) THEN Raise("ZeroDivisionError") ELSE Beyond
      [] name = "ln" -> IF IsZero(argument) \/ IsNegative(argument) THEN Raise("ValueError")
                        ELSE IF NumEq(argument, One) THEN Ok(DecNum(0, 1))
                        ELSE Beyond
      [] name = "log" -> IF IsZero(argument) \/ IsNegative(argument) THEN Raise("ValueError")
                         ELSE LET k == Log10Exact(argument, IntNum(1), 0)
                              IN  IF k >= 0 THEN Ok(DecNum(k, 1)) ELSE Beyond

\* the least integer >= x
Ceiling(x) == -((-x.n) \div x.d)

RECURSIVE ExpLoopFrom(_, _, _, _, _)
\* the while loop of pure_python_exp: current_value, iteration_count and g
ExpLoopFrom(b, n, current_value, iteration_count, g) ==
    IF Less(IntNum(iteration_count), n)
    THEN LET product == Mul(current_value, b)
         IN  IF product.st # "ok"
             THEN [st |-> product.st, v |-> product.v, count |-> iteration_count, g |-> g + 1]
             ELSE ExpLoopFrom(b, n, product.v, iteration_count + 1, g + 1)
    ELSE [st |-> "ok", v |-> current_value, count |-> iteration_count, g |-> g]

\* e if b is the Decimal 10^e for an e >= 1 inside the window, otherwise -1
DecimalPowerOfTen(b) ==
    IF b.int \/ b.d # 1 THEN -1
    ELSE CASE b.n = 10 -> 1 [] b.n = 100 -> 2 [] b.n = 1000 -> 3 [] b.n = 10000 -> 4
           [] OTHER -> -1

\* the while loop without its call of check_timeout
ExpLoopUnguarded(b, n, g) ==
    IF b.d = 1 /\ b.n \in {0, 1, -1} /\ Less(IntNum(1), n)
    THEN LET count == Ceiling(n)
         IN  [st |-> "ok",
              v |-> IF b.n = -1 /\ count % 2 = 0 THEN Neg(b) ELSE b,
              count |-> count, g |-> g]
    ELSE ExpLoopFrom(b, n, b, 1, g)

\* the while loop started at current_value = b, iteration_count = 1.  For
\* b in {0, 1, -1} the products repeat, and the loop's result after its
\* Ceiling(n) - 1 multiplications is given in closed form.  For a Decimal
\* b = 10^e the product of k factors is 10^(e * k), exact at every precision:
\* the multiplication that makes e * k exceed Emax raises decimal.Overflow.
ExpLoop(b, n, g) ==
    IF b.d = 1 /\ b.n \in {0, 1, -1} /\ Less(IntNum(1), n)
    THEN LET count == Ceiling(n)
         IN  [st |-> "ok",
              v |-> IF b.n = -1 /\ count % 2 = 0 THEN Neg(b) ELSE b,
              count |-> count, g |-> g + (count - 1)]
    ELSE LET e == DecimalPowerOfTen(b)
             fits == Emax \div e
         IN  IF e >= 1 /\ Ceiling(n) > fits
             THEN [st |-> "Overflow", v |-> IntNum(0), count |-> fits, g |-> g + fits]
             ELSE ExpLoopFrom(b, n, b, 1, g)

\* 1 / Decimal(current_value)
Reciprocal(current_value) ==
    IF IsZero(current_value) THEN Raise("ZeroDivisionError")
    ELSE TrueDiv(One, current_value)

\* pure_python_exp(b, n); decimal.InvalidOperation becomes OverflowError
pure_python_exp(b, n0, g) ==
    IF IsZero(n0)
    THEN \* b**n: 1 for ints; Decimal 0 ** 0 is an InvalidOperation
         IF b.int /\ n0.int THEN Done(Ok(IntNum(1)), g)
         ELSE IF IsZero(b) THEN Done(Raise("OverflowError"), g)
         ELSE Done(Ok(One), g)
    ELSE LET exponent_is_int == n0.int
             exponent_is_negative == IsNegative(n0)
             n == IF exponent_is_negative THEN Neg(n0) ELSE n0
             loop == ExpLoop(b, n, g)
             leftover == Sub(n, IntNum(loop.count)).v
             \* current_value = Decimal(current_value) * (b**n) for the leftover n
             powered ==
                 IF exponent_is_int THEN Ok(loop.v)
                 ELSE IF IsZero(b) THEN Raise("OverflowError")
                 ELSE IF IsZero(leftover) THEN Ok([loop.v EXCEPT !.int = FALSE])
                 ELSE IF IsNegative(b) THEN Raise("OverflowError")
                 ELSE Beyond
         IN  IF loop.st # "ok" THEN Done(loop, loop.g)
             ELSE IF powered.st # "ok" THEN Done(powered, loop.g)
             ELSE IF ~exponent_is_negative THEN Done(powered, loop.g)
             ELSE Done(Reciprocal(powered.v), loop.g)

\* the operators dictionary of rpn_evaluation
ApplyOperator(operator, x, y, g) ==
    CASE operator = "+" -> Done(Add(x, y), g)
      [] operator = "-" -> Done(Sub(x, y), g)
      [] operator = "*" -> Done(Mul(x, y), g)
      [] operator = "/" -> Done(TrueDiv(x, y), g)
      [] operator = "^" -> pure_python_exp(x, y, g)

RECURSIVE rpn_evaluation(_, _, _, _)
\* the for loop of rpn_evaluation at element i of output_queue
rpn_evaluation(output_queue, i, evaluation_stack, g) ==
    IF i > Len(output_queue)
    THEN IF evaluation_stack = <<>> THEN Done(Raise("IndexError"), g)
         ELSE Done(Ok(evaluation_stack[1]), g)
    ELSE LET token == output_queue[i]
             depth == Len(evaluation_stack)
         IN  IF ~IsSymIn(token, Operators)
             THEN rpn_evaluation(output_queue, i + 1, Append(evaluation_stack, token), g + 1)
             ELSE IF depth < 2 THEN Done(Raise("IndexError"), g + 1)
             ELSE LET operand2 == evaluation_stack[depth]
                      operand1 == evaluation_stack[depth - 1]
                      applied == ApplyOperator(token.s, operand1, operand2, g + 1)
                  IN  IF applied.st # "ok" THEN applied
                      ELSE rpn_evaluation(output_queue, i + 1,
                               Append(SubSeq(evaluation_stack, 1, depth - 2), applied.v),
                               applied.g)

\* a precedence dictionary that gives every operator the same precedence
precedenceFlat(operator) ==
    CASE operator \in {"+", "-"} -> 1
      [] operator \in {"*", "/"} -> 1
      [] operator = "^" -> 1

precedence(operator) ==
    CASE operator \in {"+", "-"} -> 1
      [] operator \in {"*", "/"} -> 2
      [] operator = "^" -> 3

RECURSIVE PopOperators(_, _, _)
\* the while loop that moves operators of at least the precedence of token
\* from operator_stack to output_queue
PopOperators(token, operator_stack, output_queue) ==
    IF /\ operator_stack # <<>>
       /\ precedence(token.s) <= precedence(operator_stack[Len(operator_stack)].s)
    THEN PopOperators(token, SubSeq(operator_stack, 1, Len(operator_stack) - 1),
             Append(output_queue, operator_stack[Len(operator_stack)]))
    ELSE [operator_stack |-> Append(operator_stack, token), output_queue |-> output_queue]

RECURSIVE shunting_yard_evaluation(_, _, _, _, _)
\* the for loop of shunting_yard_evaluation at element i of items, then the
\* flush of operator_stack and rpn_evaluation
shunting_yard_evaluation(items, i, operator_stack, output_queue, g) ==
    IF i > Len(items)
    THEN rpn_evaluation(output_queue \o Reverse(operator_stack), 1, <<>>,
             g + Len(operator_stack))
    ELSE LET token == items[i]
         IN  IF IsList(token)
             THEN LET inner == shunting_yard_evaluation(token.items, 1, <<>>, <<>>, g + 1)
                  IN  IF inner.st # "ok" THEN inner
                      ELSE shunting_yard_evaluation(items, i + 1, operator_stack,
                               Append(output_queue, inner.v), inner.g)
             ELSE IF IsNum(token)
             THEN shunting_yard_evaluation(items, i + 1, operator_stack,
                      Append(output_queue, token), g + 1)
             ELSE IF IsSymIn(token, FUNCTION_NAMES)
             THEN IF i + 1 > Len(items) THEN Done(Raise("StopIteration"), g + 1)
                  ELSE IF ~IsList(items[i + 1]) THEN Done(Raise(IterExc(items[i + 1])), g + 1)
                  ELSE LET argument == shunting_yard_evaluation(items[i + 1].items, 1,
                                           <<>>, <<>>, g + 1)
                           applied == ApplyFunction(token.s, argument.v)
                       IN  IF argument.st # "ok" THEN argument
                           ELSE IF applied.st # "ok" THEN Done(applied, argument.g)
                           ELSE shunting_yard_evaluation(items, i + 2, operator_stack,
                                    Append(output_queue, applied.v), argument.g)
             ELSE IF IsSymIn(token, Operators)
             THEN LET popped == PopOperators(token, operator_stack, output_queue)
                  IN  shunting_yard_evaluation(items, i + 1, popped.operator_stack,
                          popped.output_queue,
                          g + 1 + (Len(popped.output_queue) - Len(output_queue)))
             ELSE shunting_yard_evaluation(items, i + 1, operator_stack, output_queue, g + 1)

RECURSIVE QueueOf(_, _, _, _)
\* the output_queue that the for loop of shunting_yard_evaluation and the
\* flush of operator_stack build from items, each operand (a number, a nested
\* list, a function name with its argument) standing in it for its value
QueueOf(items, i, operator_stack, output_queue) ==
    IF i > Len(items) THEN output_queue \o Reverse(operator_stack)
    ELSE LET token == items[i]
         IN  IF IsList(token) \/ IsNum(token)
             THEN QueueOf(items, i + 1, operator_stack, Append(output_queue, token))
             ELSE IF IsSymIn(token, FUNCTION_NAMES)
             THEN QueueOf(items, i + 2, operator_stack, Append(output_queue, token))
             ELSE IF IsSymIn(token, Operators)
             THEN LET popped == PopOperators(token, operator_stack, output_queue)
                  IN  QueueOf(items, i + 1, popped.operator_stack, popped.output_queue)
             ELSE QueueOf(items, i + 1, operator_stack, output_queue)

RECURSIVE StackOf(_, _, _)
\* the length of evaluation_stack in the for loop of rpn_evaluation at
\* element i of output_queue: enough is FALSE when a pop() finds it empty,
\* left is its length when the loop ends
StackOf(output_queue, i, depth) ==
    IF i > Len(output_queue) THEN [enough |-> TRUE, left |-> depth]
    ELSE IF ~IsSymIn(output_queue[i], Operators) THEN StackOf(output_queue, i + 1, depth + 1)
    ELSE IF depth < 2 THEN [enough |-> FALSE, left |-> depth]
    ELSE StackOf(output_queue, i + 1, depth - 1)

\* evaluate(tokens): the four rewrites, then shunting_yard_evaluation
evaluate(tokens) ==
    LET easier_tokens == Restructure(tokens)
    IN  IF easier_tokens.exc # "" THEN Done(Raise(easier_tokens.exc), easier_tokens.g)
        ELSE shunting_yard_evaluation(easier_tokens.items, 1, <<>>, <<>>, easier_tokens.g)

(***************************************************************************)
(* calculate as a state machine.  A behaviour is one call of calculate on  *)
(* the text expression; pc is the place reached in it.                     *)
(***************************************************************************)
VARIABLES
    expression,   \* the text given to calculate
    pc,           \* "calculate", "tokens", "correct", "returned" or "raised"
    called,       \* the stages entered so far, in order
    tokens,       \* what get_tokens returned
    got_tokens,   \* TRUE once get_tokens has returned
    correct,      \* what check_correctness returned
    parens_correct,       \* what check_parens_correctness returned inside it
    got_correct,  \* TRUE once check_correctness has returned
    status,       \* the status calculate returned (-1 before it returns)
    result,       \* the local result, and the value calculate returned
    exception,    \* the exception that left calculate ("" if none)
    call_count,   \* check_timeout.call_count
    late,         \* TRUE once time.time() - start_time exceeds the timeout
    late_after,   \* the check_timeout calls evaluate makes before that moment
    earlier,      \* what the earlier calls of calculate returned, in order
    converted,    \* what get_int_or_decimal_from_string returned
    guard_returns \* the calls of check_timeout that returned after the deadline passed

vars == <<expression, pc, called, tokens, got_tokens, correct, parens_correct, got_correct,
          status, result, exception, call_count, late, late_after, earlier, converted, guard_returns>>

\* the latest moment of evaluate at which the deadline passes, counted in
\* readings of the clock made before it
MaxDeadlines == 3

\* values of check_timeout.call_count left behind by earlier calls
StartCounts == {0, GuardWrap - 8}

\* texts whose evaluation stays inside the window of the model
Representable(e) ==
    LET t == get_tokens(e).tokens
    IN  \/ t = <<>>
        \/ ~check_correctness(t).result
        \/ evaluate(t).st # "beyond"

\* the state when calculate is entered with one of the texts
InitWith(texts) ==
    /\ expression \in texts
    /\ pc = "calculate"
    /\ called = <<>>
    /\ tokens = <<>>
    /\ got_tokens = FALSE
    /\ correct = FALSE
    /\ parens_correct = FALSE
    /\ got_correct = FALSE
    /\ status = -1
    /\ result = IntNum(0)
    /\ exception = ""
    /\ call_count \in StartCounts
    /\ late = FALSE
    /\ late_after = 0
    /\ earlier = <<>>
    /\ converted = <<>>
    /\ guard_returns = 0

\* the except clauses of calculate
CaughtStatus(exc) ==
    CASE exc = "ValueError" -> VALUE_ERROR
      [] exc = "ZeroDivisionError" -> ZERO_DIVISION_ERROR
      [] exc = "OverflowError" -> OVERFLOW_ERROR
      [] exc = "TimeoutError" -> TIMEOUT_ERROR
      [] exc = "MemoryError" -> MEMORY_ERROR
      [] OTHER -> -1

Return(st, value) ==
    /\ pc' = "returned"
    /\ status' = st
    /\ result' = value
    /\ exception' = ""

\* an exception raised inside the try block of calculate
Raised(exc) ==
    IF CaughtStatus(exc) # -1 THEN Return(CaughtStatus(exc), IntNum(0))
    ELSE /\ pc' = "raised"
         /\ exception' = exc
         /\ UNCHANGED <<status, result>>

\* check_timeout raises during the g further calls of a stage: the counter
\* wraps to 0 at a call made after the deadline has passed, which is after
\* late_after calls of the stage
TimesOut(g) ==
    late /\ (call_count + g) \div GuardWrap > (call_count + late_after) \div GuardWrap
AfterCalls(g) == (call_count + g) % GuardWrap

\* the moments of a stage of g check_timeout calls at which the deadline can
\* pass, one before each reading of the clock: all that check_timeout sees of
\* the moment is the first reading after it
DeadlinePoints(g) ==
    {m \in {k * GuardWrap : k \in 0..MaxDeadlines} : m = 0 \/ m < g}

\* the clock passes the deadline armed at the start of calculate: between
\* two stages, or during evaluate
Tick ==
    /\ pc \in {"calculate", "tokens", "correct", "number_string", "check_timeout"}
    /\ ~late
    /\ late' = TRUE
    /\ late_after' \in IF pc = "correct" THEN DeadlinePoints(evaluate(tokens).g) ELSE {0}
    /\ UNCHANGED <<expression, pc, called, tokens, got_tokens, correct, parens_correct,
                   got_correct, status, result, exception, call_count, earlier, converted, guard_returns>>

\* GetTokens without the test "if not tokens": calculate goes on to
\* check_correctness whatever get_tokens returned
GetTokensUnchecked ==
    /\ pc = "calculate"
    /\ called' = Append(called, "get_tokens")
    /\ LET r == get_tokens(expression)
       IN  IF TimesOut(r.g)
           THEN /\ call_count' = 0
                /\ Raised("TimeoutError")
                /\ UNCHANGED <<tokens, got_tokens>>
           ELSE /\ call_count' = AfterCalls(r.g)
                /\ tokens' = r.tokens
                /\ got_tokens' = TRUE
                /\ pc' = "tokens"
                /\ UNCHANGED <<status, result, exception>>
    /\ UNCHANGED <<expression, correct, parens_correct, got_correct, late, late_after,
                   earlier, converted, guard_returns>>

\* tokens = get_tokens(expression); if not tokens: return (INVALID_EXPRESSION, 0)
GetTokens ==
    /\ pc = "calculate"
    /\ called' = Append(called, "get_tokens")
    /\ LET r == get_tokens(expression)
       IN  IF TimesOut(r.g)
           THEN /\ call_count' = 0
                /\ Raised("TimeoutError")
                /\ UNCHANGED <<tokens, got_tokens>>
           ELSE /\ call_count' = AfterCalls(r.g)
                /\ tokens' = r.tokens
                /\ got_tokens' = TRUE
                /\ IF r.tokens = <<>> THEN Return(INVALID_EXPRESSION, IntNum(0))
                   ELSE pc' = "tokens" /\ UNCHANGED <<status, result, exception>>
    /\ UNCHANGED <<expression, correct, parens_correct, got_correct, late, late_after,
                   earlier, converted, guard_returns>>

\* if not check_correctness(tokens): return (INVALID_EXPRESSION, 0)
CheckCorrectness ==
    /\ pc = "tokens"
    /\ called' = Append(called, "check_correctness")
    /\ LET r == check_correctness(tokens)
       IN  IF TimesOut(r.g)
           THEN /\ call_count' = 0
                /\ Raised("TimeoutError")
                /\ UNCHANGED <<correct, parens_correct, got_correct>>
           ELSE /\ call_count' = AfterCalls(r.g)
                /\ IF r.exc # ""
                   THEN Raised(r.exc) /\ UNCHANGED <<correct, parens_correct, got_correct>>
                   ELSE /\ correct' = r.result
                        /\ parens_correct' = r.parens
                        /\ got_correct' = TRUE
                        /\ IF r.result
                           THEN pc' = "correct" /\ UNCHANGED <<status, result, exception>>
                           ELSE Return(INVALID_EXPRESSION, IntNum(0))
    /\ UNCHANGED <<expression, tokens, got_tokens, late, late_after, earlier, converted, guard_returns>>

\* result = evaluate(tokens); return (SUCCESS, result)
Evaluate ==
    /\ pc = "correct"
    /\ called' = Append(called, "evaluate")
    /\ LET r == evaluate(tokens)
       IN  IF TimesOut(r.g)
           THEN call_count' = 0 /\ Raised("TimeoutError")
           ELSE /\ call_count' = AfterCalls(r.g)
                /\ IF r.st = "ok" THEN Return(SUCCESS, r.v) ELSE Raised(r.st)
    /\ UNCHANGED <<expression, tokens, got_tokens, correct, parens_correct, got_correct,
                   late, late_after, earlier, converted, guard_returns>>

Next == Tick \/ GetTokens \/ CheckCorrectness \/ Evaluate

\* calculate goes from one stage to the next, or to its end
NextStage ==
    /\ pc \in {"calculate", "tokens", "correct"}
    /\ pc' \in {"tokens", "correct", "returned", "raised"} \ {pc}

\* get_int_or_decimal_from_string(number_string) on a literal of any length:
\* one call of check_timeout for each character
GetIntOrDecimal ==
    /\ pc = "number_string"
    /\ called' = Append(called, "get_int_or_decimal_from_string")
    /\ IF TimesOut(Len(expression))
       THEN /\ call_count' = 0
            /\ pc' = "raised"
            /\ exception' = "TimeoutError"
            /\ UNCHANGED converted
       ELSE /\ call_count' = AfterCalls(Len(expression))
            /\ pc' = "number"
            /\ converted' = <<LongValue(expression)>>
            /\ UNCHANGED exception
    /\ UNCHANGED <<expression, tokens, got_tokens, correct, parens_correct, got_correct,
                   status, result, late, late_after, earlier, guard_returns>>

\* a call of check_timeout that reads the clock whatever call_count is
CheckTimeoutEveryCall ==
    /\ pc = "check_timeout"
    /\ call_count' = (call_count + 1) % GuardWrap
    /\ IF late
       THEN pc' = "raised" /\ exception' = "TimeoutError" /\ UNCHANGED guard_returns
       ELSE UNCHANGED <<pc, exception, guard_returns>>
    /\ UNCHANGED <<expression, called, tokens, got_tokens, correct, parens_correct,
                   got_correct, status, result, late, late_after, earlier, converted>>

\* one call of check_timeout from a loop that calls it again and again
CheckTimeout ==
    /\ pc = "check_timeout"
    /\ call_count' = (call_count + 1) % GuardWrap
    /\ IF call_count' = 0 /\ late
       THEN pc' = "raised" /\ exception' = "TimeoutError" /\ UNCHANGED guard_returns
       ELSE /\ guard_returns' = IF late THEN guard_returns + 1 ELSE guard_returns
            /\ UNCHANGED <<pc, exception>>
    /\ UNCHANGED <<expression, called, tokens, got_tokens, correct, parens_correct,
                   got_correct, status, result, late, late_after, earlier, converted>>

\* the values of call_count at which the deadline passes
DeadlineCounts == {0, 1, GuardWrap \div 2, GuardWrap - 8, GuardWrap - 1}
TickInLoop == call_count \in DeadlineCounts /\ Tick

\* a loop of check_timeout calls, during which the deadline may pass
NextGuard == TickInLoop \/ CheckTimeout

\* one call of get_int_or_decimal_from_string
NextNumber == Tick \/ GetIntOrDecimal

\* the code of calculate runs to its end: no stage waits for anything
Progress == WF_pc(NextStage)

\* the calls of calculate made one after the other in one process
MaxCalls == 2

\* the deadline has passed when the call starts: a timeout of 0
TickAtOnce == pc = "calculate" /\ Tick

\* calculate is called again on the same text: check_timeout.start_time is
\* set anew, check_timeout.call_count is what the call before left
CalculateAgain ==
    /\ pc \in {"returned", "raised"}
    /\ Len(earlier) < MaxCalls - 1
    /\ earlier' = Append(earlier, [status |-> status, result |-> result,
                                   exception |-> exception, late |-> late])
    /\ pc' = "calculate"
    /\ called' = <<>>
    /\ tokens' = <<>>
    /\ got_tokens' = FALSE
    /\ correct' = FALSE
    /\ parens_correct' = FALSE
    /\ got_correct' = FALSE
    /\ status' = -1
    /\ result' = IntNum(0)
    /\ exception' = ""
    /\ late' = FALSE
    /\ late_after' = 0
    /\ UNCHANGED <<expression, call_count, converted, guard_returns>>

\* calls of calculate on one text, each with no deadline or with a deadline
\* that has passed at once
NextTwice == TickAtOnce \/ GetTokens \/ CheckCorrectness \/ Evaluate \/ CalculateAgain

(***************************************************************************)
(* Input families.  A family is a set of texts; each specification is one  *)
(* call of calculate on a text of one family.                              *)
(***************************************************************************)
RECURSIVE Concatenations(_, _)
\* the texts made of at most n of the pieces
Concatenations(pieces, n) ==
    IF n = 0 THEN {<<>>}
    ELSE LET shorter == Concatenations(pieces, n - 1)
         IN  shorter \cup {t \o piece : t \in shorter, piece \in pieces}

\* the longest text of StagePieces, in pieces
MaxStage == 4
\* "x" is a character get_next_token does not know
StagePieces == {<<"2">>, <<"+">>, <<"(">>, <<")">>, <<"x">>}
StageTexts(n) == {e \in Concatenations(StagePieces, n) : Representable(e)}
InitStages == InitWith(StageTexts(MaxStage))
SpecStages == InitStages /\ [][Next]_vars

\* the longest text of BracketPieces, in pieces
MaxLen == 5
BracketPieces == {<<"2">>, <<"(">>, <<")">>, <<"{">>, <<"}">>}
BracketTexts(n) == {e \in Concatenations(BracketPieces, n) : Representable(e)}
InitBrackets == InitWith(BracketTexts(MaxLen))
SpecBrackets == InitBrackets /\ [][Next]_vars

CallPieces == {<<"0">>, <<"+">>, <<"(">>, <<")">>, <<"{">>, <<"}">>, <<"c", "o", "s">>}
CallTexts(n) == {e \in Concatenations(CallPieces, n) : Representable(e)}
InitCalls == InitWith(CallTexts(MaxLen - 1))
SpecCalls == InitCalls /\ [][Next]_vars

RECURSIVE Join(_)
\* "".join(pieces)
Join(pieces) == IF pieces = <<>> THEN <<>> ELSE pieces[1] \o Join(Tail(pieces))

BinaryOperators == {"+", "-", "*", "/"}
ArithLiterals == {<<"2">>, <<"3">>, <<"4">>, <<"0", ".", "5">>}
\* a o b o c, (a o b) o c and a o {b o c}
ArithTexts ==
    UNION {{Join(<<a, <<o1>>, b, <<o2>>, c>>),
            Join(<<<<"(">>, a, <<o1>>, b, <<")">>, <<o2>>, c>>),
            Join(<<a, <<o1>>, <<"{">>, b, <<o2>>, c, <<"}">>>>)} :
               a \in ArithLiterals, b \in ArithLiterals, c \in ArithLiterals,
               o1 \in BinaryOperators, o2 \in BinaryOperators}
InitArith == InitWith({e \in ArithTexts : Representable(e)})
SpecArith == InitArith /\ [][Next]_vars

\* the longest chain of exponentiations, in operands
MaxChain == 4
ChainOperands == {<<"2">>, <<"3">>, <<"0">>, <<"(", "2", ")">>,
                  <<"c", "o", "s", "(", "0", ")">>}
RECURSIVE Chains(_)
\* the chains x ^ ... ^ z of 1..n operands
Chains(n) ==
    IF n = 1 THEN ChainOperands
    ELSE Chains(n - 1) \cup {chain \o <<"^">> \o x : chain \in Chains(n - 1),
                                                     x \in ChainOperands}
InitChain == InitWith({e \in Chains(MaxChain) : Representable(e)})
SpecChain == InitChain /\ [][Next]_vars

\* the largest digit written as a literal
MaxDigit == 5
Digits == <<"0", "1", "2", "3", "4", "5", "6", "7", "8", "9">>
DigitLiterals == {<<Digits[n + 1]>> : n \in 0..MaxDigit}
\* -a^b, (-a)^b and {-a}^b
NegatedPowerTexts ==
    UNION {{<<"-">> \o a \o <<"^">> \o b,
            <<"(", "-">> \o a \o <<")", "^">> \o b,
            <<"{", "-">> \o a \o <<"}", "^">> \o b} :
               a \in DigitLiterals \cup {<<"0", ".", "5">>}, b \in DigitLiterals}

\* the longest run of unary signs
MaxRun == 3
RECURSIVE SignRuns(_)
\* the runs of 1..n signs
SignRuns(n) ==
    IF n = 0 THEN {}
    ELSE {<<"+">>, <<"-">>} \cup
         {run \o sign : run \in SignRuns(n - 1), sign \in {<<"+">>, <<"-">>}}
SignOperands == {<<"5">>, <<"1">>, <<"0", ".", "5">>, <<"(", "2", ")">>, <<"{", "3", "}">>,
                 <<"c", "o", "s", "(", "0", ")">>}
SignContexts == {"start", "times", "minus", "power", "round", "curly", "ln"}
\* the run and the operand x written in the context
InContext(context, run, x) ==
    CASE context = "start" -> run \o x
      [] context = "times" -> <<"2", "*">> \o run \o x
      [] context = "minus" -> <<"2", "-">> \o run \o x
      [] context = "power" -> <<"2", "^">> \o run \o x
      [] context = "round" -> <<"(">> \o run \o x \o <<")">>
      [] context = "curly" -> <<"{">> \o run \o x \o <<"}">>
      [] context = "ln" -> <<"l", "n", "(">> \o run \o x \o <<")">>
SignTexts(n) ==
    {InContext(context, run, x) : context \in SignContexts, run \in SignRuns(n),
                                  x \in SignOperands}
InitUnary == InitWith({e \in NegatedPowerTexts \cup SignTexts(MaxRun) : Representable(e)})
SpecUnary == InitUnary /\ [][Next]_vars

\* the deepest nesting of contexts around a failing operation
MaxNest == 2
FaultContexts == {"sum", "curly", "cos"}
\* the text x written in the context
Within(context, x) ==
    CASE context = "sum" -> <<"2", "+">> \o x
      [] context = "curly" -> <<"{">> \o x \o <<"}">>
      [] context = "cos" -> <<"c", "o", "s", "(">> \o x \o <<")">>
RECURSIVE ContextChains(_)
\* the chains of at most n contexts, innermost first
ContextChains(n) ==
    IF n = 0 THEN {<<>>}
    ELSE ContextChains(n - 1) \cup
         {Append(chain, context) : chain \in ContextChains(n - 1), context \in FaultContexts}
RECURSIVE InContexts(_, _)
\* the text x written inside the contexts of the chain
InContexts(chain, x) ==
    IF chain = <<>> THEN x ELSE InContexts(Tail(chain), Within(Head(chain), x))

\* name(argument)
Call(name, argument) == name \o <<"(">> \o argument \o <<")">>
DomainFunctions == {<<"l", "n">>, <<"l", "o", "g">>, <<"t", "a", "n">>, <<"c", "o", "t">>}
FunctionArguments == {<<"0">>, <<"1">>, <<"-", "1">>, <<"0", ".", "0">>, <<"-", "0", ".", "5">>,
                      <<"1", "-", "1">>, <<"2", "-", "3">>, <<"(", "0", ")">>, <<"1", "0">>}
Dividends == {<<"0">>, <<"2">>, <<"0", ".", "0">>, <<"0", ".", "5">>, <<"(", "1", "-", "1", ")">>}
Divisors == {<<"0">>, <<"0", ".", "0">>, <<"(", "1", "-", "1", ")">>, <<"-", "0">>, <<"2">>}
\* Decimal bases 10^e with e = 1, 2 and exponents on both sides of Emax
PowerBases == {<<"1", "0", ".", "0">>, <<"1", "0", "0", ".", "0">>, <<"1", "0">>}
PowerExponents == {<<"9", "9", "9", "9", "9", "9">>, <<"1", "0", "0", "0", "0", "0", "0">>,
                   <<"4", "9", "9", "9", "9", "9">>, <<"5", "0", "0", "0", "0", "0">>,
                   <<"-", "1", "0", "0", "0", "0", "0", "0">>, <<"2">>}
FaultCores ==
    {Call(name, argument) : name \in DomainFunctions, argument \in FunctionArguments}
    \cup {a \o <<"/">> \o z : a \in Dividends, z \in Divisors}
    \cup {b \o <<"^">> \o n : b \in PowerBases, n \in PowerExponents}
FaultTexts(n) ==
    {e \in {InContexts(chain, core) : chain \in ContextChains(n), core \in FaultCores} :
        Representable(e)}
InitFaults == InitWith(FaultTexts(MaxNest))
SpecFaults == InitFaults /\ [][Next]_vars

\* a loop of pure_python_exp shorter or longer than the interval of the guard
LoopBases == {<<"1">>, <<"0">>, <<"1", ".", "0">>, <<"2">>}
LoopExponents == {<<"3">>, <<"1", "0", "2", "6">>, <<"2", "5", "0", "0">>,
                  <<"-", "2", "5", "0", "0">>, <<"0", ".", "5">>}
LoopTexts(n) ==
    {e \in {InContexts(chain, b \o <<"^">> \o x) :
                chain \in ContextChains(n), b \in LoopBases, x \in LoopExponents} :
        Representable(e)}
InitLoops == InitWith(LoopTexts(MaxNest))
SpecLoops == InitLoops /\ [][Next]_vars /\ Progress

\* texts check_correctness accepts, and each of them with an operator put at
\* its end or put before one of its numbers
AcceptedPieces == {<<"2">>, <<"+">>, <<"*">>, <<"(">>, <<")">>, <<"c", "o", "s">>}
AcceptedTexts(n) ==
    {e \in Concatenations(AcceptedPieces, n) :
        get_tokens(e).tokens # <<>> /\ check_correctness(get_tokens(e).tokens).result}
Inserted(e, i, operator) == SubSeq(e, 1, i - 1) \o <<operator>> \o SubSeq(e, i, Len(e))
\* the places of e where an operator is put: its end, and before each number
InsertionPoints(e) == {i \in 1..(Len(e) + 1) : i = Len(e) + 1 \/ e[i] \in DigitChars}
OperatorTexts(n) ==
    {t \in AcceptedTexts(n) \cup
            UNION {{Inserted(e, i, operator) : i \in InsertionPoints(e), operator \in Operators} :
                      e \in AcceptedTexts(n)} :
        Representable(t)}
InitOperators == InitWith(OperatorTexts(MaxLen))
SpecOperators == InitOperators /\ [][Next]_vars

\* a o b o c and a o {b o c} over ints and decimals, with or without a sign
TypeLiterals == {<<"2">>, <<"3">>, <<"0", ".", "5">>}
TypeTexts ==
    UNION {{Join(<<a, <<o1>>, b, <<o2>>, c>>),
            Join(<<<<"-">>, a, <<o1>>, b, <<o2>>, c>>),
            Join(<<a, <<o1>>, <<"{">>, b, <<o2>>, c, <<"}">>>>)} :
               a \in TypeLiterals, b \in TypeLiterals, c \in TypeLiterals,
               o1 \in Operators, o2 \in Operators}
InitTypes == InitWith({e \in TypeTexts : Representable(e)})
SpecTypes == InitTypes /\ [][Next]_vars

\* the longest run of one digit in the literals below
MaxFill == 29
RECURSIVE Repeated(_, _)
Repeated(text, n) == IF n = 0 THEN <<>> ELSE text \o Repeated(text, n - 1)
LiteralHeads == {<<>>, <<"0">>, <<"7">>, <<"0", "1", "2">>, <<"9", "9", "9", "9">>}
LiteralTails == {<<>>, <<"1">>, <<"5">>, <<"5", "0">>, <<"5", "1">>, <<"4", "9">>}
\* a head, a run of one digit and a tail, with a dot at either end of the
\* run or with none
LiteralTexts(n) ==
    {t \in UNION {{head \o run \o tail, head \o <<".">> \o run \o tail,
                   head \o run \o <<".">> \o tail} :
                     head \in LiteralHeads, tail \in LiteralTails,
                     run \in {Repeated(<<fill>>, j) : fill \in {"0", "5", "9"}, j \in 0..n}} :
        t # <<>> /\ t # <<".">>}
\* the state when get_int_or_decimal_from_string is entered with a literal
InitNumbers ==
    /\ expression \in LiteralTexts(MaxFill)
    /\ pc = "number_string"
    /\ called = <<>>
    /\ tokens = <<>>
    /\ got_tokens = FALSE
    /\ correct = FALSE
    /\ parens_correct = FALSE
    /\ got_correct = FALSE
    /\ status = -1
    /\ result = IntNum(0)
    /\ exception = ""
    /\ call_count \in StartCounts
    /\ late = FALSE
    /\ late_after = 0
    /\ earlier = <<>>
    /\ converted = <<>>
    /\ guard_returns = 0
SpecNumbers == InitNumbers /\ [][NextNumber]_vars

\* texts with characters get_next_token does not know: a letter after a
\* keyword, "=" and " " anywhere
LexPieces == {<<"0">>, <<"(">>, <<")">>, <<"x">>, <<"=">>, <<" ">>, <<"s", "i", "n">>}
LexTexts(n) == {e \in Concatenations(LexPieces, n) : Representable(e)}
InitLex == InitWith(LexTexts(MaxStage))
SpecLex == InitLex /\ [][Next]_vars

\* runs of digits and dots between operators
RunPieces == {<<"5">>, <<"0">>, <<".">>, <<"+">>}
RunTexts(n) == {e \in Concatenations(RunPieces, n) : Representable(e)}
InitRuns == InitWith(RunTexts(MaxLen))
SpecRuns == InitRuns /\ [][Next]_vars

\* a ^ run b and a ^ run b ^ c for a run of unary signs
ExponentBases == {<<"2">>, <<"1">>, <<"0">>, <<"0", ".", "5">>}
ExponentDigits == {<<"2">>, <<"1">>, <<"0">>, <<"3">>}
ExponentTexts(n) ==
    UNION {{a \o <<"^">> \o run \o b, a \o <<"^">> \o run \o b \o <<"^">> \o c} :
              a \in ExponentBases, run \in SignRuns(n), b \in ExponentDigits,
              c \in ExponentDigits}
InitExponents == InitWith({e \in ExponentTexts(MaxRun) : Representable(e)})
SpecExponents == InitExponents /\ [][Next]_vars

\* the state when a loop that calls check_timeout is entered
InitGuard ==
    /\ expression = <<>>
    /\ pc = "check_timeout"
    /\ called = <<>>
    /\ tokens = <<>>
    /\ got_tokens = FALSE
    /\ correct = FALSE
    /\ parens_correct = FALSE
    /\ got_correct = FALSE
    /\ status = -1
    /\ result = IntNum(0)
    /\ exception = ""
    /\ call_count \in StartCounts
    /\ late = FALSE
    /\ late_after = 0
    /\ earlier = <<>>
    /\ converted = <<>>
    /\ guard_returns = 0
\* the loop goes on calling check_timeout until it raises
SpecGuard == InitGuard /\ [][NextGuard]_vars /\ WF_vars(CheckTimeout)

\* b ^ n for an integer n: zero, positive and negative
IntegerPowerBases == {<<"2">>, <<"3">>, <<"0">>, <<"1">>, <<"0", ".", "0">>, <<"0", ".", "5">>,
                      <<"2", ".", "5">>}
IntegerExponents == {<<"0">>, <<"1">>, <<"2">>, <<"3">>, <<"5">>, <<"-", "0">>, <<"-", "1">>,
                     <<"-", "2">>, <<"-", "3">>}
IntegerPowerTexts ==
    {e \in {b \o <<"^">> \o n : b \in IntegerPowerBases, n \in IntegerExponents} :
        Representable(e)}
InitIntegerPowers == InitWith(IntegerPowerTexts)
SpecIntegerPowers == InitIntegerPowers /\ [][Next]_vars

\* texts with brackets, calls, powers and signs
TreePieces == {<<"2">>, <<"+">>, <<"-">>, <<"^">>, <<"(">>, <<")">>, <<"c", "o", "s">>}
TreeTexts(n) == {e \in Concatenations(TreePieces, n) : Representable(e)}
InitTrees == InitWith(TreeTexts(MaxLen - 1))
SpecTrees == InitTrees /\ [][Next]_vars

\* texts with two different numbers, brackets, powers and signs
LeafPieces == {<<"1">>, <<"2">>, <<"-">>, <<"^">>, <<"(">>, <<")">>}
LeafTexts(n) == {e \in Concatenations(LeafPieces, n) : Representable(e)}
InitLeaves == InitWith(LeafTexts(MaxLen))
SpecLeaves == InitLeaves /\ [][Next]_vars

TwiceTexts ==
    {<<"2", "+", "2">>, <<"2", "/", "0">>, <<"(", "2">>, <<"x">>, <<"l", "n", "(", "0", ")">>,
     <<"1", "^", "6", "0", "0">>, <<"1", "^", "2", "5", "0", "0">>,
     <<"0", ".", "5", "*", "4">>, <<"1", "2", "3", "4", "5", "6", "7", "8">>}
InitTwice == InitWith(TwiceTexts)
SpecTwice == InitTwice /\ [][NextTwice]_vars

(***************************************************************************)
(* The expressions of the test generator.  An expression is a list of      *)
(* token strings, as get_random_expression builds it; the text given to    *)
(* calculate is their concatenation.                                       *)
(***************************************************************************)
\* "max subexpression values", "max subexpression depth" and "max
\* consecutive unaries" of the cfg_settings
MaxValues == 3
MaxDepth == 1
MaxUnaries == 2
\* the longest expression generated, in token strings
MaxTokens == 5

\* str(random_int) and str(left_of_dot) + "." + str(right_of_dot)
IntStrings == {<<"0">>, <<"2">>}
FloatStrings == {<<"0", ".", "0">>, <<"0", ".", "5">>}
FunctionStrings == {<<"s", "i", "n">>, <<"c", "o", "s">>, <<"t", "a", "n">>,
                    <<"c", "o", "t">>, <<"l", "n">>, <<"l", "o", "g">>}
OperatorStrings == {<<"+">>, <<"-">>, <<"*">>, <<"/">>, <<"^">>}

RECURSIVE UnaryRuns(_)
\* the runs of 1..n unary operators, as lists of token strings
UnaryRuns(n) ==
    IF n <= 0 THEN {}
    ELSE {<<<<"+">>>>, <<<<"-">>>>} \cup
         {Append(run, sign) : run \in UnaryRuns(n - 1), sign \in {<<"+">>, <<"-">>}}

RECURSIVE ValuesOf(_, _), ExpressionsOf(_, _, _)
\* one number, function or subexpression of at most budget token strings,
\* with the unaries before it
ValuesOf(subexpression_depth, budget) ==
    LET SubExpressions(room) == ExpressionsOf(subexpression_depth + 1, room, MaxValues - 1)
        Bare(room) ==
            IF room < 1 THEN {}
            ELSE {<<number>> : number \in IntStrings \cup FloatStrings}
                 \cup (IF subexpression_depth >= MaxDepth THEN {}
                       ELSE {<<function_choice, <<"(">>>> \o inner \o <<<<")">>>> :
                                function_choice \in FunctionStrings,
                                inner \in SubExpressions(room - 3)}
                            \cup {<<<<"(">>>> \o inner \o <<<<")">>>> :
                                     inner \in SubExpressions(room - 2)}
                            \cup {<<<<"{">>>> \o inner \o <<<<"}">>>> :
                                     inner \in SubExpressions(room - 2)})
    IN  Bare(budget)
        \cup UNION {{run \o value : value \in Bare(budget - Len(run))} :
                    run \in UnaryRuns(MaxUnaries - 1)}

\* get_random_expression: expression_length values joined by operators
ExpressionsOf(subexpression_depth, budget, expression_length) ==
    IF expression_length < 1 \/ budget < 1 THEN {}
    ELSE ValuesOf(subexpression_depth, budget)
         \cup UNION {{first \o <<operator_choice>> \o rest :
                         operator_choice \in OperatorStrings,
                         rest \in ExpressionsOf(subexpression_depth,
                                     budget - Len(first) - 1, expression_length - 1)} :
                     first \in ValuesOf(subexpression_depth, budget - 2)}

\* add_an_error at index idx (from 1) of expression_token_strings
ErrorsAt(expression_token_strings, idx) ==
    LET token == expression_token_strings[idx]
        before == SubSeq(expression_token_strings, 1, idx - 1)
        after == SubSeq(expression_token_strings, idx + 1, Len(expression_token_strings))
    IN  IF token \in FunctionStrings
        THEN {before \o <<token \o <<letter>>>> \o after : letter \in {"a", "x"}}
        ELSE IF idx = Len(expression_token_strings)
        THEN {Append(expression_token_strings, operator) : operator \in OperatorStrings}
        ELSE IF token \in {<<"(">>, <<"{">>, <<"}">>, <<")">>}
        THEN {before \o after}
        ELSE IF \E i \in 1..Len(token) : token[i] = "."
        THEN {before \o <<token \o <<".", "7">>>> \o after}
        ELSE {before \o <<operator, token>> \o after :
                 operator \in {<<"*">>, <<"/">>, <<"^">>}}

\* the texts the tests give to calculate
GeneratedTexts(budget) ==
    LET generated == ExpressionsOf(0, budget, MaxValues - 1)
    IN  {Join(token_strings) : token_strings \in generated}
        \cup UNION {UNION {{Join(changed) : changed \in ErrorsAt(token_strings, idx)} :
                           idx \in 1..Len(token_strings)} :
                    token_strings \in generated}

(***************************************************************************)
(* The claims                                                              *)
(***************************************************************************)
Range(seq) == {seq[i] : i \in 1..Len(seq)}
Stages == <<"get_tokens", "check_correctness", "evaluate">>

\* C2: within one call the stages are entered in the order get_tokens,
\* check_correctness, evaluate; check_correctness is entered only after
\* get_tokens returned a list that is not empty, evaluate only after that and
\* after check_correctness returned true; and once get_tokens has returned
\* the empty list or check_correctness has returned false, calculate has
\* returned (INVALID_EXPRESSION, 0).
C2_StagesShortCircuit ==
    /\ \E n \in 0..Len(Stages) : called = SubSeq(Stages, 1, n)
    /\ "check_correctness" \in Range(called) => got_tokens /\ tokens # <<>>
    /\ "evaluate" \in Range(called) =>
           got_tokens /\ tokens # <<>> /\ got_correct /\ correct
    /\ (got_tokens /\ tokens = <<>>) \/ (got_correct /\ ~correct) =>
           /\ pc = "returned"
           /\ status = INVALID_EXPRESSION
           /\ result = IntNum(0)
           /\ "evaluate" \notin Range(called)

\* a text with an unknown character was given, get_tokens returned the empty
\* list, and calculate returned without entering another stage
C2_LexerFailureSeen ==
    /\ \E i \in 1..Len(expression) : expression[i] = "x"
    /\ got_tokens /\ tokens = <<>>
    /\ called = <<"get_tokens">>
    /\ pc = "returned"

RECURSIVE BracketsOf(_)
\* the bracket symbols of a token sequence, in order
BracketsOf(ts) ==
    IF ts = <<>> THEN <<>>
    ELSE IF IsSymIn(ts[1], OpenBrackets \cup CloseBrackets)
    THEN <<ts[1].s>> \o BracketsOf(Tail(ts))
    ELSE BracketsOf(Tail(ts))

RECURSIVE Cancels(_)
\* a string of brackets is balanced, correctly nested with matching kinds,
\* when cancelling adjacent pairs () and {} leaves nothing
Cancels(bs) ==
    \/ bs = <<>>
    \/ \E i \in 1..(Len(bs) - 1) :
           /\ <<bs[i], bs[i + 1]>> \in {<<"(", ")">>, <<"{", "}">>}
           /\ Cancels(SubSeq(bs, 1, i - 1) \o SubSeq(bs, i + 2, Len(bs)))

Balanced(ts) == Cancels(BracketsOf(ts))

Without(ts, i) == SubSeq(ts, 1, i - 1) \o SubSeq(ts, i + 1, Len(ts))

\* C9: check_parens_correctness returns false for every token sequence whose
\* brackets are not balanced and correctly nested with matching kinds, and
\* for every sequence got by deleting one bracket token from a sequence it
\* accepts.
C9_UnbalancedRejected ==
    got_correct =>
        /\ ~Balanced(tokens) => ~parens_correct
        /\ parens_correct =>
               \A i \in 1..Len(tokens) :
                   IsSymIn(tokens[i], OpenBrackets \cup CloseBrackets) =>
                       ~check_parens_correctness(Without(tokens, i)).result

\* check_parens_correctness accepted a sequence with a curly group nested in
\* a round one
C9_NestedAccepted ==
    /\ got_correct /\ parens_correct
    /\ \E i \in 1..(Len(tokens) - 1) : IsSym(tokens[i], "(") /\ IsSym(tokens[i + 1], "{")

\* a token after which an operand is complete, and a token that begins one
EndsOperand(t) == IsNum(t) \/ IsSymIn(t, CloseBrackets)
BeginsOperand(t) == IsNum(t) \/ IsSymIn(t, FUNCTION_NAMES) \/ IsSymIn(t, OpenBrackets)

\* C8: in a token sequence that check_correctness accepts, no operand
\* (number, bracket group or function call) is immediately followed by a
\* number, a function name or an opening bracket.
C8_OperandsAlternate ==
    got_correct /\ correct =>
        \A i \in 1..(Len(tokens) - 1) :
            ~(EndsOperand(tokens[i]) /\ BeginsOperand(tokens[i + 1]))

\* what calculate does with the text e when no timeout occurs: the status
\* and value returned, or the exception that leaves it
Calculated(e) ==
    LET Returned(st, value) == [status |-> st, result |-> value, exception |-> ""]
        Failed(exc) ==
            IF CaughtStatus(exc) # -1 THEN Returned(CaughtStatus(exc), IntNum(0))
            ELSE [status |-> -1, result |-> IntNum(0), exception |-> exc]
        lexed == get_tokens(e).tokens
        checked == check_correctness(lexed)
        evaluated == evaluate(lexed)
    IN  IF lexed = <<>> THEN Returned(INVALID_EXPRESSION, IntNum(0))
        ELSE IF checked.exc # "" THEN Failed(checked.exc)
        ELSE IF ~checked.result THEN Returned(INVALID_EXPRESSION, IntNum(0))
        ELSE IF evaluated.st = "ok" THEN Returned(SUCCESS, evaluated.v)
        ELSE Failed(evaluated.st)

RECURSIVE BracketCharsOf(_)
\* the bracket characters of a text, in order
BracketCharsOf(e) ==
    IF e = <<>> THEN <<>>
    ELSE IF e[1] \in OpenBrackets \cup CloseBrackets
    THEN <<e[1]>> \o BracketCharsOf(Tail(e))
    ELSE BracketCharsOf(Tail(e))

\* the brackets at i and j of the text e are a matched pair
MatchedPair(e, i, j) ==
    /\ i < j
    /\ <<e[i], e[j]>> \in {<<"(", ")">>, <<"{", "}">>}
    /\ Cancels(BracketCharsOf(SubSeq(e, i + 1, j - 1)))

OtherStyle(c) ==
    CASE c = "(" -> "{" [] c = ")" -> "}" [] c = "{" -> "(" [] c = "}" -> ")"

\* the text e with the pair at i and j written in the other style
Restyled(e, i, j) == [e EXCEPT ![i] = OtherStyle(e[i]), ![j] = OtherStyle(e[j])]

Finished == pc \in {"returned", "raised"}
TimedOut == pc = "returned" /\ status = TIMEOUT_ERROR

\* C10: writing a matched pair of brackets of the expression in the other
\* style changes neither the status nor the value calculate returns.
C10_StylesInterchangeable ==
    Finished /\ ~TimedOut =>
        \A i, j \in 1..Len(expression) :
            MatchedPair(expression, i, j) =>
                Calculated(Restyled(expression, i, j))
                    = [status |-> status, result |-> result, exception |-> exception]

\* this call of calculate ended as the outcome o says
Matches(o) ==
    CASE o.st = "ok" -> pc = "returned" /\ status = SUCCESS /\ result = o.v
      [] o.st # "ok" /\ CaughtStatus(o.st) # -1 ->
             pc = "returned" /\ status = CaughtStatus(o.st) /\ result = IntNum(0)
      [] OTHER -> pc = "raised" /\ exception = o.st

\* x operator y
Binary(operator, x, y) ==
    LET applied == ApplyOperator(operator, x, y, 0)
    IN  [st |-> applied.st, v |-> applied.v]
\* (a o1 b) o2 c and a o1 (b o2 c)
LeftFirst(a, o1, b, o2, c) ==
    LET first == Binary(o1, a, b)
    IN  IF first.st # "ok" THEN first ELSE Binary(o2, first.v, c)
RightFirst(a, o1, b, o2, c) ==
    LET second == Binary(o2, b, c)
    IN  IF second.st # "ok" THEN second ELSE Binary(o1, a, second.v)

\* the kinds of the tokens: "num" for a number, the symbol otherwise
Kinds(ts) == [i \in 1..Len(ts) |-> IF IsNum(ts[i]) THEN "num" ELSE ts[i].s]
IsShape(ts, shape) ==
    /\ Len(ts) = Len(shape)
    /\ \A i \in 1..Len(ts) :
           \/ shape[i] = Kinds(ts)[i]
           \/ shape[i] = "op" /\ Kinds(ts)[i] \in BinaryOperators

\* C4: a o1 b o2 c is evaluated as a o1 (b o2 c) when o1 is + or - and o2 is
\* * or /, and as (a o1 b) o2 c otherwise; a bracket group is evaluated
\* first, whatever the operators are.
C4_PrecedenceAndGrouping ==
    Finished /\ ~TimedOut /\ got_tokens =>
        /\ IsShape(tokens, <<"num", "op", "num", "op", "num">>) =>
               LET a == tokens[1]  o1 == tokens[2].s  b == tokens[3]
                   o2 == tokens[4].s  c == tokens[5]
               IN  Matches(IF o1 \in {"+", "-"} /\ o2 \in {"*", "/"}
                           THEN RightFirst(a, o1, b, o2, c)
                           ELSE LeftFirst(a, o1, b, o2, c))
        /\ IsShape(tokens, <<"(", "num", "op", "num", ")", "op", "num">>) =>
               Matches(LeftFirst(tokens[2], tokens[3].s, tokens[4], tokens[6].s, tokens[7]))
        /\ IsShape(tokens, <<"num", "op", "{", "num", "op", "num", "}">>) =>
               Matches(RightFirst(tokens[1], tokens[2].s, tokens[4], tokens[5].s, tokens[6]))

\* "3+4*2" has yielded 11
C4_ProductBeforeSum ==
    /\ expression = <<"3", "+", "4", "*", "2">>
    /\ pc = "returned" /\ status = SUCCESS /\ result = IntNum(11)

RECURSIVE SplitAtCarets(_, _, _, _)
\* the token sequence ts cut at its ^ tokens outside every bracket: the
\* pieces before token i (done), and the piece being read (current)
SplitAtCarets(ts, i, depth, done) ==
    IF i > Len(ts) THEN done
    ELSE LET t == ts[i]
             parts == Len(done)
             extended == [done EXCEPT ![parts] = Append(@, t)]
         IN  IF IsSym(t, "^") /\ depth = 0
             THEN SplitAtCarets(ts, i + 1, depth, Append(done, <<>>))
             ELSE IF IsSymIn(t, OpenBrackets)
             THEN SplitAtCarets(ts, i + 1, depth + 1, extended)
             ELSE IF IsSymIn(t, CloseBrackets)
             THEN SplitAtCarets(ts, i + 1, depth - 1, extended)
             ELSE SplitAtCarets(ts, i + 1, depth, extended)

\* a bracket group: the first token opens the bracket the last one closes
IsGroup(ts) ==
    /\ Len(ts) >= 2
    /\ IsSymIn(ts[1], OpenBrackets)
    /\ Cancels(BracketsOf(ts))
    /\ \A i \in 1..(Len(ts) - 1) : ~Cancels(BracketsOf(SubSeq(ts, 1, i)))

\* a number, a bracket group or a function call that has a value
IsOperand(ts) ==
    /\ ts # <<>>
    /\ \/ Len(ts) = 1 /\ IsNum(ts[1])
       \/ IsGroup(ts)
       \/ IsSymIn(ts[1], FUNCTION_NAMES) /\ IsGroup(Tail(ts))
    /\ check_correctness(ts).result
    /\ evaluate(ts).st = "ok"

RECURSIVE PowerTower(_)
\* x1 ^ (x2 ^ (... ^ xn)) for the values xs
PowerTower(xs) ==
    IF Len(xs) = 1 THEN Ok(xs[1])
    ELSE LET rest == PowerTower(Tail(xs))
         IN  IF rest.st # "ok" THEN rest ELSE Binary("^", xs[1], rest.v)

\* C5: a chain x1 ^ x2 ^ ... ^ xn of operands (numbers, bracket groups,
\* function calls) evaluates as x1 ^ (x2 ^ (... ^ xn)).
C5_PowerRightAssociative ==
    Finished /\ ~TimedOut /\ got_tokens =>
        LET operands == SplitAtCarets(tokens, 1, 0, <<<<>>>>)
        IN  Len(operands) >= 2 /\ (\A i \in 1..Len(operands) : IsOperand(operands[i])) =>
                Matches(PowerTower([i \in 1..Len(operands) |-> evaluate(operands[i]).v]))

\* "2^3^2" has yielded 512
C5_TowerOfThree ==
    /\ expression = <<"2", "^", "3", "^", "2">>
    /\ pc = "returned" /\ status = SUCCESS /\ result = IntNum(512)

Negated(o) == IF o.st = "ok" THEN Ok(Neg(o.v)) ELSE o

\* C6: -a^b evaluates as -(a^b), and (-a)^b as the power of -a.
C6_MinusAppliesToPower ==
    Finished /\ ~TimedOut /\ got_tokens =>
        /\ IsShape(tokens, <<"-", "num", "^", "num">>) =>
               Matches(Negated(Binary("^", tokens[2], tokens[4])))
        /\ \/ IsShape(tokens, <<"(", "-", "num", ")", "^", "num">>)
           \/ IsShape(tokens, <<"{", "-", "num", "}", "^", "num">>) =>
               Matches(Binary("^", Neg(tokens[3]), tokens[6]))

\* "-5^2" has yielded -25
C6_MinusFiveSquared ==
    /\ expression = <<"-", "5", "^", "2">>
    /\ pc = "returned" /\ status = SUCCESS /\ result = IntNum(-25)

\* the number of - signs in a run
Minuses(run) == Cardinality({i \in 1..Len(run) : run[i] = "-"})

\* the value of the operand x after the run of signs, in the context
SignedValue(context, run, x) ==
    LET value == evaluate(get_tokens(x).tokens).v
        signed == IF Minuses(run) % 2 = 1 THEN Neg(value) ELSE value
    IN  CASE context \in {"start", "round", "curly"} -> Ok(signed)
          [] context = "times" -> Binary("*", IntNum(2), signed)
          [] context = "minus" -> Binary("-", IntNum(2), signed)
          [] context = "power" -> Binary("^", IntNum(2), signed)
          [] context = "ln" -> ApplyFunction("ln", signed)

\* C7: an operand x after a run of unary signs has the value -x when the
\* number of - signs is odd and x when it is even, at the start of the
\* expression, after a binary operator, and directly inside a bracket or a
\* function argument.
C7_SignRunsFold ==
    Finished /\ ~TimedOut =>
        \A context \in SignContexts, run \in SignRuns(MaxRun), x \in SignOperands :
            expression = InContext(context, run, x) =>
                Matches(SignedValue(context, run, x))

\* "---5" has yielded -5
C7_ThreeMinuses ==
    /\ expression = <<"-", "-", "-", "5">>
    /\ pc = "returned" /\ status = SUCCESS /\ result = IntNum(-5)

(***************************************************************************)
(* The reference of run_tests: eval of the text with ^ read as **, { } as  *)
(* ( ), and the functions of math.  Values are exact; st is "reject" for a *)
(* text eval rejects (SyntaxError, NameError, TypeError).                  *)
(***************************************************************************)
Letters == {"a", "c", "g", "i", "l", "n", "o", "s", "t", "x"}
NameOf(letters) ==
    CASE letters = <<"s", "i", "n">> -> "sin" [] letters = <<"c", "o", "s">> -> "cos"
      [] letters = <<"t", "a", "n">> -> "tan" [] letters = <<"c", "o", "t">> -> "cot"
      [] letters = <<"l", "n">> -> "ln" [] letters = <<"l", "o", "g">> -> "log"
      [] OTHER -> ""

RECURSIVE RunEnd(_, _, _)
\* the index after the run of characters of the set that starts at i
RunEnd(e, i, chars) ==
    IF i <= Len(e) /\ e[i] \in chars THEN RunEnd(e, i + 1, chars) ELSE i

RECURSIVE LiteralValue(_, _, _, _)
\* the value of a literal with at most one dot, read from character i on
LiteralValue(literal, i, n, d) ==
    IF i > Len(literal) THEN (IF d = 0 THEN IntNum(n) ELSE Num(FALSE, n, d))
    ELSE IF literal[i] = "." THEN LiteralValue(literal, i + 1, n, 1)
    ELSE LiteralValue(literal, i + 1, n * 10 + DigitValue(literal[i]),
             IF d = 0 THEN 0 ELSE d * 10)

RECURSIVE Scanned(_, _, _)
\* the tokens of the text, or <<Sym("reject")>> for a name that is no function,
\* a literal with two dots or an unknown character
Scanned(e, i, sofar) ==
    IF i > Len(e) THEN sofar
    ELSE IF e[i] \in NumberChars
    THEN LET j == RunEnd(e, i, NumberChars)
             literal == SubSeq(e, i, j - 1)
             dots == Cardinality({k \in 1..Len(literal) : literal[k] = "."})
             value == LiteralValue(literal, 1, 0, 0)
         IN  IF dots > 1 \/ dots = Len(literal) THEN <<Sym("reject")>>
             ELSE Scanned(e, j, Append(sofar, value))
    ELSE IF e[i] \in Letters
    THEN LET j == RunEnd(e, i, Letters)
             name == NameOf(SubSeq(e, i, j - 1))
         IN  IF name = "" THEN <<Sym("reject")>> ELSE Scanned(e, j, Append(sofar, Sym(name)))
    ELSE IF e[i] \in {"(", "{"} THEN Scanned(e, i + 1, Append(sofar, Sym("(")))
    ELSE IF e[i] \in {")", "}"} THEN Scanned(e, i + 1, Append(sofar, Sym(")")))
    ELSE IF e[i] \in Operators THEN Scanned(e, i + 1, Append(sofar, Sym(e[i])))
    ELSE <<Sym("reject")>>

RECURSIVE IntegerPower(_, _)
\* x ** k for an integer k >= 0
IntegerPower(x, k) ==
    IF k = 0 THEN Ok(Num(x.int, 1, 1))
    ELSE LET rest == IntegerPower(x, k - 1)
         IN  IF rest.st # "ok" THEN rest ELSE Mul(rest.v, x)

\* x / y and x ** y of Python
ReferenceDivide(x, y) ==
    IF IsZero(y) THEN Raise("ZeroDivisionError")
    ELSE IF OnlyFactors(Quotient(x, y).d, {2, 5}) THEN Windowed(Quotient(x, y))
    ELSE Beyond
ReferencePower(x, y) ==
    IF y.d # 1
    THEN IF IsZero(x) /\ IsNegative(y) THEN Raise("ZeroDivisionError")
         ELSE IF IsZero(x) THEN Ok(x)
         ELSE Beyond
    ELSE IF y.n >= 0 THEN IntegerPower(x, y.n)
    ELSE IF IsZero(x) THEN Raise("ZeroDivisionError")
    ELSE LET positive == IntegerPower(x, -y.n)
         IN  IF positive.st # "ok" THEN positive
             ELSE ReferenceDivide(DecNum(1, 1), positive.v)

\* the value of left operator right, the operands evaluated left to right
ReferenceApply(operator, left, right) ==
    IF left.st # "ok" THEN left
    ELSE IF right.st # "ok" THEN right
    ELSE CASE operator = "+" -> Add(left.v, right.v)
           [] operator = "-" -> Sub(left.v, right.v)
           [] operator = "*" -> Mul(left.v, right.v)
           [] operator = "/" -> ReferenceDivide(left.v, right.v)
           [] operator = "^" -> ReferencePower(left.v, right.v)

Rejected == [st |-> "reject", v |-> IntNum(0)]
Parsed(outcome, pos) == [st |-> outcome.st, v |-> outcome.v, pos |-> pos]

RECURSIVE ParseSum(_, _), SumTail(_, _), ParseTerm(_, _), TermTail(_, _),
          ParseFactor(_, _), ParsePower(_, _), ParseAtom(_, _)
\* each parser reads ts from index pos on and gives the outcome and the
\* index after what it read; st = "reject" when ts is malformed there
\* sum: term (('+' | '-') term)*
ParseSum(ts, pos) == SumTail(ts, ParseTerm(ts, pos))
SumTail(ts, left) ==
    IF left.st = "reject" THEN left
    ELSE IF left.pos <= Len(ts) /\ IsSymIn(ts[left.pos], {"+", "-"})
    THEN LET right == ParseTerm(ts, left.pos + 1)
         IN  IF right.st = "reject" THEN right
             ELSE SumTail(ts, Parsed(ReferenceApply(ts[left.pos].s, left, right), right.pos))
    ELSE left
\* term: factor (('*' | '/') factor)*
ParseTerm(ts, pos) == TermTail(ts, ParseFactor(ts, pos))
TermTail(ts, left) ==
    IF left.st = "reject" THEN left
    ELSE IF left.pos <= Len(ts) /\ IsSymIn(ts[left.pos], {"*", "/"})
    THEN LET right == ParseFactor(ts, left.pos + 1)
         IN  IF right.st = "reject" THEN right
             ELSE TermTail(ts, Parsed(ReferenceApply(ts[left.pos].s, left, right), right.pos))
    ELSE left
\* factor: ('+' | '-') factor | power
ParseFactor(ts, pos) ==
    IF pos > Len(ts) THEN Parsed(Rejected, pos)
    ELSE IF IsSym(ts[pos], "+") THEN ParseFactor(ts, pos + 1)
    ELSE IF IsSym(ts[pos], "-")
    THEN LET operand == ParseFactor(ts, pos + 1)
         IN  IF operand.st = "ok" THEN [operand EXCEPT !.v = Neg(@)] ELSE operand
    ELSE ParsePower(ts, pos)
\* power: atom ['^' factor]
ParsePower(ts, pos) ==
    LET base == ParseAtom(ts, pos)
    IN  IF base.st = "reject" THEN base
        ELSE IF base.pos <= Len(ts) /\ IsSym(ts[base.pos], "^")
        THEN LET exponent == ParseFactor(ts, base.pos + 1)
             IN  IF exponent.st = "reject" THEN exponent
                 ELSE Parsed(ReferenceApply("^", base, exponent), exponent.pos)
        ELSE base
\* atom: number | '(' sum ')' | name '(' sum ')'
ParseAtom(ts, pos) ==
    IF pos > Len(ts) THEN Parsed(Rejected, pos)
    ELSE IF IsNum(ts[pos]) THEN Parsed(Ok(ts[pos]), pos + 1)
    ELSE IF IsSym(ts[pos], "(")
    THEN LET inner == ParseSum(ts, pos + 1)
         IN  IF inner.st = "reject" THEN inner
             ELSE IF inner.pos <= Len(ts) /\ IsSym(ts[inner.pos], ")")
             THEN [inner EXCEPT !.pos = @ + 1]
             ELSE Parsed(Rejected, inner.pos)
    ELSE IF IsSymIn(ts[pos], FUNCTION_NAMES) /\ pos < Len(ts) /\ IsSym(ts[pos + 1], "(")
    THEN LET argument == ParseSum(ts, pos + 2)
         IN  IF argument.st = "reject" THEN argument
             ELSE IF ~(argument.pos <= Len(ts) /\ IsSym(ts[argument.pos], ")"))
             THEN Parsed(Rejected, argument.pos)
             ELSE IF argument.st # "ok" THEN [argument EXCEPT !.pos = @ + 1]
             ELSE Parsed(ApplyFunction(ts[pos].s, argument.v), argument.pos + 1)
    ELSE Parsed(Rejected, pos)

\* "(*", "//", "**" or "(^" occurs in the text
HasRefusedPair(e) ==
    \E i \in 1..(Len(e) - 1) :
        <<e[i], e[i + 1]>> \in {<<"(", "*">>, <<"/", "/">>, <<"*", "*">>, <<"(", "^">>}

\* what the reference makes of the text e
Reference(e) ==
    LET ts == Scanned(e, 1, <<>>)
        parsed == ParseSum(ts, 1)
    IN  IF HasRefusedPair(e) \/ ts = <<Sym("reject")>> \/ ts = <<>> THEN Rejected
        ELSE IF parsed.st = "reject" \/ parsed.pos <= Len(ts) THEN Rejected
        ELSE [st |-> parsed.st, v |-> parsed.v]

\* C1: calculate returns a status in 0..6 for every text, no exception
\* leaves it, and the value returned with a status that is not SUCCESS is 0.
C1_NoFailureEscapes ==
    Finished =>
        /\ pc = "returned"
        /\ status \in SUCCESS..MEMORY_ERROR
        /\ status # SUCCESS => result = IntNum(0)

\* C3: on the texts of the test generator, with or without an injected
\* error, calculate returns INVALID_EXPRESSION exactly when the reference
\* rejects the text, VALUE_ERROR or ZERO_DIVISION_ERROR exactly when the
\* reference raises ValueError or ZeroDivisionError, and otherwise the value
\* of the reference.  As in run_tests, a call that returns OVERFLOW_ERROR,
\* TIMEOUT_ERROR or MEMORY_ERROR counts as agreeing, and so does a text whose
\* reference value lies beyond the window of the model.
C3_AgreesWithReference ==
    Finished =>
        LET reference == Reference(expression)
        IN  \/ pc = "returned"
               /\ status \in {OVERFLOW_ERROR, TIMEOUT_ERROR, MEMORY_ERROR}
            \/ reference.st = "beyond"
            \/ /\ reference.st = "reject"
               /\ pc = "returned" /\ status = INVALID_EXPRESSION
            \/ /\ reference.st \in {"ValueError", "ZeroDivisionError"}
               /\ pc = "returned" /\ status \in {VALUE_ERROR, ZERO_DIVISION_ERROR}
            \/ /\ reference.st = "ok"
               /\ pc = "returned" /\ status = SUCCESS /\ NumEq(result, reference.v)

\* the expression is the text x inside at most MaxNest contexts
Nested(x) == \E chain \in ContextChains(MaxNest) : expression = InContexts(chain, x)

\* the text x alone evaluates to a number for which Test holds
Evaluates(x, Test(_)) == Calculated(x).status = SUCCESS /\ Test(Calculated(x).result)
NonPositive(v) == v.n <= 0

\* C11: when the argument of ln or log evaluates to a value that is not
\* positive and nothing fails before the function is applied, calculate
\* returns (VALUE_ERROR, 0), at whatever nesting depth the call is written.
C11_LogOfNonPositive ==
    Finished /\ ~TimedOut =>
        \A name \in {<<"l", "n">>, <<"l", "o", "g">>}, argument \in FunctionArguments :
            Nested(Call(name, argument)) /\ Evaluates(argument, NonPositive) =>
                pc = "returned" /\ status = VALUE_ERROR /\ result = IntNum(0)

\* log(2 - 3) inside cos inside a sum ended as a ValueError
C11_NestedLogOfMinusOne ==
    /\ expression = InContexts(<<"cos", "sum">>, Call(<<"l", "o", "g">>, <<"2", "-", "3">>))
    /\ pc = "returned" /\ status = VALUE_ERROR

\* C12: when cot is applied to an argument whose tangent is zero (tan has no
\* argument at which math.tan fails), calculate returns the domain-error
\* status (VALUE_ERROR, 0) and no other status.
C12_UndefinedCotIsDomainError ==
    Finished /\ ~TimedOut =>
        \A argument \in FunctionArguments :
            Nested(Call(<<"c", "o", "t">>, argument)) /\ Evaluates(argument, IsZero) =>
                pc = "returned" /\ status = VALUE_ERROR /\ result = IntNum(0)

AnyNumber(v) == TRUE

\* C13: whenever / is applied with a divisor equal to zero, whatever the
\* dividend and the types of the two, calculate returns
\* (ZERO_DIVISION_ERROR, 0).
C13_ZeroDivisor ==
    Finished /\ ~TimedOut =>
        \A a \in Dividends, z \in Divisors :
            /\ Nested(a \o <<"/">> \o z)
            /\ Evaluates(a, AnyNumber)
            /\ Evaluates(z, IsZero)
            => pc = "returned" /\ status = ZERO_DIVISION_ERROR /\ result = IntNum(0)

\* the power b ^ n of a Decimal literal b = 10^e ("1", e zeros, ".0") whose
\* e * |n| is above Emax: its magnitude is beyond the decimal arithmetic
Overflows(b, n) ==
    /\ Len(b) > 3 /\ b[Len(b) - 1] = "."
    /\ Calculated(n).status = SUCCESS
    /\ (Len(b) - 3) * Abs(Calculated(n).result.n) > Emax

\* C14: whenever an operation of the evaluation exceeds the magnitude limit
\* of the decimal arithmetic, calculate returns (OVERFLOW_ERROR, 0): the raw
\* numeric fault does not leave the evaluator.
C14_OverflowIsReported ==
    Finished /\ ~TimedOut =>
        \A b \in PowerBases, n \in PowerExponents :
            Nested(b \o <<"^">> \o n) /\ Overflows(b, n) =>
                pc = "returned" /\ status = OVERFLOW_ERROR /\ result = IntNum(0)

\* the index of the last number token of ts
RECURSIVE LastNumber(_)
LastNumber(ts) ==
    IF ts = <<>> THEN 0
    ELSE IF IsNum(ts[Len(ts)]) THEN Len(ts)
    ELSE LastNumber(SubSeq(ts, 1, Len(ts) - 1))

\* the check_timeout calls evaluate makes on ts before the loop of the power
\* b ^ n at token i starts: the calls made when the same tokens with
\* 0.0 ^ 0 in its place fail on entry to pure_python_exp
CallsBeforeLoop(ts, i) ==
    evaluate([ts EXCEPT ![i - 1] = DecNum(0, 1), ![LastNumber(ts)] = IntNum(0)]).g

\* the multiplications the loop of the power at token i of ts still has to
\* run when the deadline passes: all of them, less the ones made by then
IterationsLeft(ts, i) ==
    LET exponent == ts[LastNumber(ts)]
        done == late_after - CallsBeforeLoop(ts, i)
    IN  IF ~exponent.int THEN 0
        ELSE (exponent.n - 1) - (IF done > 0 THEN done ELSE 0)

\* the deadline has passed and evaluate is about to run, or is running, a
\* loop that has more iterations left than the guard's interval
LongLoopLeft ==
    /\ pc = "correct" /\ late
    /\ \E b \in LoopBases, x \in LoopExponents : Nested(b \o <<"^">> \o x)
    /\ \E i \in 2..Len(tokens) :
           IsSym(tokens[i], "^") /\ IterationsLeft(tokens, i) > GuardWrap

\* C15: if the deadline passes while an exponentiation with an integer
\* exponent still has more iterations to run than the interval at which the
\* guard reads the clock, calculate goes on to return (TIMEOUT_ERROR, 0), at
\* whatever depth the power is written: never the computed power.
C15_LongLoopTimesOut ==
    LongLoopLeft ~> (pc = "returned" /\ status = TIMEOUT_ERROR /\ result = IntNum(0))

\* the deadline passed during the loop of 1.0 ^ 2500 inside brackets inside a
\* sum, after the first 1024 calls of the guard, and calculate returned
\* TIMEOUT_ERROR
C15_TimedOutInsideLoop ==
    /\ expression = InContexts(<<"curly", "sum">>,
                         <<"1", ".", "0", "^", "2", "5", "0", "0">>)
    /\ late_after = GuardWrap
    /\ pc = "returned" /\ status = TIMEOUT_ERROR

\* C16: a second call of calculate on the same text under the same timing
\* (no deadline, or a deadline that has passed at once, in both calls)
\* returns the status and the value of the first.
C16_SecondCallAgrees ==
    Finished /\ Len(earlier) = 1 /\ earlier[1].late = late =>
        /\ earlier[1].status = status
        /\ earlier[1].result = result
        /\ earlier[1].exception = exception

\* token i of ts is an operator at the end of ts, or one of *, / and ^ right
\* before a number, and ts without it is a sequence check_correctness accepts
OperatorAdded(ts, i) ==
    /\ IsSymIn(ts[i], Operators)
    /\ \/ i = Len(ts)
       \/ IsSymIn(ts[i], {"*", "/", "^"}) /\ IsNum(ts[i + 1])
    /\ check_correctness(Without(ts, i)).result

\* C17: a token sequence got from one that check_correctness accepts by
\* appending one of + - * / ^, or by inserting one of * / ^ right before one
\* of its numbers, is rejected by check_correctness, and calculate returns
\* (INVALID_EXPRESSION, 0).
C17_OperatorOutOfPlace ==
    got_correct /\ (\E i \in 1..Len(tokens) : OperatorAdded(tokens, i)) =>
        ~correct /\ pc = "returned" /\ status = INVALID_EXPRESSION /\ result = IntNum(0)

\* "(2+*2)", which is the accepted "(2+2)" with * before its second number,
\* was rejected
C17_StarBeforeNumberRejected ==
    /\ expression = <<"(", "2", "+", "*", "2", ")">>
    /\ got_correct /\ ~correct /\ status = INVALID_EXPRESSION

\* the character c occurs in the text e
Occurs(c, e) == \E i \in 1..Len(e) : e[i] = c

\* a "-" stands somewhere to the right of a "^"
MinusAfterCaret(e) == \E i \in 1..Len(e), j \in 1..Len(e) : i < j /\ e[i] = "^" /\ e[j] = "-"

\* C18 as stated: an expression without a decimal point in its literals that
\* evaluates without failure gives an integer-typed value.
C18_NoPointGivesInt ==
    pc = "returned" /\ status = SUCCESS /\ ~Occurs(".", expression) => result.int

\* C18 as amended: an expression of numbers and + - * / ^ that evaluates
\* without failure gives an integer-typed value if it has no decimal point,
\* no division and no "-" to the right of a "^", and a decimal-typed value
\* if it has a literal with a decimal point or a division.
C18_TypeOfResult ==
    pc = "returned" /\ status = SUCCESS /\ ~(\E c \in Letters : Occurs(c, expression)) =>
        /\ ~Occurs(".", expression) /\ ~Occurs("/", expression) /\ ~MinusAfterCaret(expression)
              => result.int
        /\ Occurs(".", expression) \/ Occurs("/", expression) => ~result.int

\* "3*{2/2}" gave the decimal-typed 3, "-2^3*2" the integer-typed -16
C18_DecimalThreeIntSixteen ==
    /\ pc = "returned" /\ status = SUCCESS
    /\ \/ expression = <<"3", "*", "{", "2", "/", "2", "}">> /\ result = DecNum(3, 1)
       \/ expression = <<"-", "2", "^", "3", "*", "2">> /\ result = IntNum(-16)

\* the digits of the literal e, without its dot
DigitsOf(e) == [i \in 1..Len(SelectSeq(e, LAMBDA c : c # "."))
                   |-> DigitValue(SelectSeq(e, LAMBDA c : c # ".")[i])]

\* the digits of e to the right of its dot
PlacesOf(e) ==
    IF Occurs(".", e) THEN Len(e) - (CHOOSE i \in 1..Len(e) : e[i] = ".") ELSE 0

\* the value the digit string e denotes
Denoted(e) == Normal(StripZeros(DigitsOf(e)), -PlacesOf(e))

\* C19: for a literal of any length, get_int_or_decimal_from_string returns
\* exactly the value its digits denote.
C19_LiteralIsExact ==
    pc = "number" => converted[1].value = Denoted(expression)

Keywords == {<<"s", "i", "n">>, <<"c", "o", "s">>, <<"t", "a", "n">>, <<"c", "o", "t">>,
             <<"l", "n">>, <<"l", "o", "g">>}

\* the keyword k is written in e from position p on
StartsAt(e, p, k) == p + Len(k) - 1 <= Len(e) /\ SubSeq(e, p, p + Len(k) - 1) = k

RECURSIVE Unrecognized(_, _)
\* reading e from position p on, token by token, a position is met that
\* holds a character outside the operator, bracket, digit and dot sets at
\* which no keyword starts
Unrecognized(e, p) ==
    IF p > Len(e) THEN FALSE
    ELSE IF e[p] \in OperatorOrBracketChars \cup NumberChars THEN Unrecognized(e, p + 1)
    ELSE IF \E k \in Keywords : StartsAt(e, p, k)
    THEN Unrecognized(e, p + Len(CHOOSE k \in Keywords : StartsAt(e, p, k)))
    ELSE TRUE

\* the text get_tokens reads: without spaces, and without one "=" at its end
Prepared(e) ==
    LET e1 == WithoutSpaces(e)
    IN  IF e1 # <<>> /\ e1[Len(e1)] = "=" THEN SubSeq(e1, 1, Len(e1) - 1) ELSE e1

\* get_tokens returned the empty list and calculate (INVALID_EXPRESSION, 0)
LexingRefused ==
    tokens = <<>> /\ pc = "returned" /\ status = INVALID_EXPRESSION /\ result = IntNum(0)

\* C20 as stated: if any position of the input holds an unrecognized token,
\* get_tokens returns the empty list and calculate (INVALID_EXPRESSION, 0).
C20_UnrecognizedAnywhere ==
    got_tokens /\ Unrecognized(expression, 1) => LexingRefused

\* C20 as amended: if the input, once its spaces and one "=" at its end are
\* removed, holds an unrecognized token at any position, then get_tokens,
\* unless the guard times it out, returns the empty list, whatever number of
\* tokens came before, and calculate returns (INVALID_EXPRESSION, 0).
C20_UnrecognizedAfterStripping ==
    got_tokens /\ Unrecognized(Prepared(expression), 1) => LexingRefused

\* "0sinx(", with two tokens before the letter, was refused
C20_LetterAfterKeyword ==
    /\ expression = <<"0", "s", "i", "n", "x", "(">>
    /\ got_tokens /\ LexingRefused

\* the last position of the maximal run of digits and dots that holds p
LastOfRun(e, p) ==
    CHOOSE j \in p..Len(e) :
        /\ \A i \in p..j : e[i] \in NumberChars
        /\ j = Len(e) \/ e[j + 1] \notin NumberChars

RECURSIVE RunsFrom(_, _)
\* the maximal runs of digits and dots of e from position p on, in order
RunsFrom(e, p) ==
    IF p > Len(e) THEN <<>>
    ELSE IF e[p] \in NumberChars
    THEN <<SubSeq(e, p, LastOfRun(e, p))>> \o RunsFrom(e, LastOfRun(e, p) + 1)
    ELSE RunsFrom(e, p + 1)

DotsIn(run) == Cardinality({i \in 1..Len(run) : run[i] = "."})
WellFormed(run) == DotsIn(run) <= 1 /\ run # <<".">>

RECURSIVE IntOf(_)
\* the int with the digits ds
IntOf(ds) == IF ds = <<>> THEN 0 ELSE IntOf(SubSeq(ds, 1, Len(ds) - 1)) * 10 + ds[Len(ds)]

RECURSIVE TenTo(_)
TenTo(k) == IF k = 0 THEN 1 ELSE 10 * TenTo(k - 1)

\* the number a well-formed run denotes: an int without a dot, a decimal with
NumberOf(run) ==
    IF DotsIn(run) = 0 THEN IntNum(IntOf(DigitsOf(run)))
    ELSE DecNum(IntOf(DigitsOf(run)), TenTo(PlacesOf(run)))

\* C21: a maximal run of digits and dots is lexed as one number token exactly
\* when it has at most one dot and is not ".": an int without a dot, a
\* decimal with one ("5." and ".5" too); a run with two dots or more, or
\* equal to ".", makes get_tokens return the empty list.
C21_NumberRuns ==
    got_tokens =>
        LET e == Prepared(expression)
            runs == RunsFrom(e, 1)
        IN  IF \E i \in 1..Len(runs) : ~WellFormed(runs[i]) THEN LexingRefused
            ELSE e # <<>> /\ ~Unrecognized(e, 1) =>
                    SelectSeq(tokens, IsNum) = [i \in 1..Len(runs) |-> NumberOf(runs[i])]

\* "5.+.5" was lexed as the decimals 5 and 0.5 around a +
C21_DotAtEitherEnd ==
    /\ expression = <<"5", ".", "+", ".", "5">>
    /\ got_tokens
    /\ tokens = <<DecNum(5, 1), Sym("+"), DecNum(1, 2)>>

\* token i of ts is a function name, and no opening bracket follows it
NameWithoutBracket(ts, i) ==
    /\ IsSymIn(ts[i], FUNCTION_NAMES)
    /\ i = Len(ts) \/ ~IsSymIn(ts[i + 1], OpenBrackets)

\* C22: for a token sequence with balanced brackets, check_parens_correctness
\* returns false if a function name stands at some index with no opening
\* bracket at the next, also when the name is the last token.
C22_FunctionNeedsBracket ==
    got_correct /\ Balanced(tokens)
                /\ (\E i \in 1..Len(tokens) : NameWithoutBracket(tokens, i)) =>
        ~parens_correct

\* an opening bracket of ts is followed at once by its closer
HasEmptyPair(ts) ==
    \E i \in 1..(Len(ts) - 1) :
        \/ IsSym(ts[i], "(") /\ IsSym(ts[i + 1], ")")
        \/ IsSym(ts[i], "{") /\ IsSym(ts[i + 1], "}")

\* C23: check_parens_correctness returns false whenever an opening bracket is
\* followed at once by its matching closer, at any depth, so no accepted
\* sequence has an empty pair; and the check never reads a token past the end
\* of the sequence (no IndexError is raised).
C23_NoEmptyPair ==
    /\ exception # "IndexError"
    /\ got_correct /\ HasEmptyPair(tokens) => ~parens_correct /\ ~correct

\* "({})", an empty pair inside a group, was refused by
\* check_parens_correctness
C23_NestedEmptyPair ==
    /\ expression = <<"(", "{", "}", ")">>
    /\ got_correct /\ ~parens_correct /\ status = INVALID_EXPRESSION

\* the tokens of the signs of ts from token i up to the operand after them
SignsFrom(ts, i) ==
    LET last == CHOOSE j \in i..Len(ts) : IsNum(ts[j]) /\ \A k \in i..(j - 1) : ~IsNum(ts[k])
    IN  [k \in 1..(last - i) |-> ts[i + k - 1].s]

\* the outcome o with the sign the run gives it
Signed(run, o) == IF Minuses(run) % 2 = 1 THEN Negated(o) ELSE o

\* a ^ (x), where x is an outcome
PowerOf(a, x) == IF x.st # "ok" THEN x ELSE Binary("^", a, x.v)

\* C24: a run of unary signs between a ^ and its right operand applies to
\* the exponent only: a ^ run b is a ^ (b with the sign of the run), and
\* a ^ run b ^ c is a ^ ((b ^ c) with the sign of the run); collecting the
\* signs never pops from an empty list.
C24_SignsStayInExponent ==
    /\ exception # "IndexError"
    /\ Finished /\ ~TimedOut /\ got_tokens /\ Len(tokens) >= 4
           /\ IsNum(tokens[1]) /\ IsSym(tokens[2], "^") /\ IsSymIn(tokens[3], {"+", "-"}) =>
          LET run == SignsFrom(tokens, 3)
              rest == SubSeq(tokens, 3 + Len(run), Len(tokens))
          IN  /\ IsShape(rest, <<"num">>) =>
                     Matches(PowerOf(tokens[1], Signed(run, Ok(rest[1]))))
              /\ IsShape(rest, <<"num", "^", "num">>) =>
                     Matches(PowerOf(tokens[1], Signed(run, Binary("^", rest[1], rest[3]))))

\* "2^-1^2" has yielded 0.5, and "2^--3" has yielded 8
C24_MinusOverInnerPower ==
    /\ pc = "returned" /\ status = SUCCESS
    /\ \/ expression = <<"2", "^", "-", "1", "^", "2">> /\ result = DecNum(1, 2)
       \/ expression = <<"2", "^", "-", "-", "3">> /\ result = IntNum(8)

\* C25: check_timeout raises only at a call that wraps its counter to 0, and
\* only once the elapsed time exceeds the timeout; the first call that wraps
\* the counter after that moment raises; so, once the deadline has passed, at
\* most 1024 further calls return, and the loop is ended by Timeout.
C25_GuardReadsClockOnWrap ==
    /\ [](pc = "raised" => late /\ call_count = 0)
    /\ [][late /\ call_count' = 0 => pc' = "raised"]_vars
    /\ [](guard_returns <= GuardWrap)
    /\ (late ~> pc = "raised")

\* the deadline passed just after a wrap: 1023 calls returned, the next raised
C25_RaisedAtNextWrap ==
    pc = "raised" /\ exception = "TimeoutError" /\ guard_returns = GuardWrap - 1

RECURSIVE ProductOf(_, _)
\* the product of n copies of b, for n >= 1
ProductOf(b, n) ==
    IF n = 1 THEN Ok(b)
    ELSE LET shorter == ProductOf(b, n - 1)
         IN  IF shorter.st # "ok" THEN shorter ELSE Mul(shorter.v, b)

\* the outcome o is a value equal to the number x
IsValue(o, x) == o.st = "ok" /\ NumEq(o.v, x)

\* C26: for a base b and an integer exponent n, b ^ n is 1 when n = 0, the
\* product of n copies of b when n >= 1, made with n - 1 calls of the guard,
\* and the reciprocal of the product of |n| copies of b when n < 0.
C26_IntegerPower ==
    pc = "returned" /\ status # TIMEOUT_ERROR /\ got_tokens
                    /\ Len(tokens) \in {3, 4} /\ IsNum(tokens[1]) /\ IsSym(tokens[2], "^")
                    /\ tokens[Len(tokens)].int =>
        LET b == tokens[1]
            size == tokens[Len(tokens)].n
            n == IF Len(tokens) = 4 THEN -size ELSE size
            product == ProductOf(b, size)
        IN  /\ n = 0 => status = SUCCESS /\ NumEq(result, IntNum(1))
            /\ n >= 1 =>
                   /\ product.st = "ok" => status = SUCCESS /\ NumEq(result, product.v)
                   /\ evaluate(tokens).g =
                          evaluate([tokens EXCEPT ![3] = IntNum(1)]).g + (n - 1)
            /\ n < 0 /\ product.st = "ok" /\ ~IsZero(product.v) =>
                   status = SUCCESS /\ IsValue(TrueDiv(IntNum(1), product.v), result)

\* a function name followed by exactly one argument list
IsCall(items) ==
    Len(items) = 2 /\ IsSymIn(items[1], FUNCTION_NAMES) /\ IsList(items[2])

\* operands (numbers or lists) alternating with binary operators, from an
\* operand to an operand
Alternates(items) ==
    /\ Len(items) % 2 = 1
    /\ \A i \in 1..Len(items) :
           IF i % 2 = 1 THEN IsNum(items[i]) \/ IsList(items[i])
           ELSE IsSymIn(items[i], Operators)

RECURSIVE WellShaped(_)
\* the list of items and every list below it has one of the two shapes, holds
\* no bracket, and has three elements if it holds ^
WellShaped(items) ==
    /\ IsCall(items) \/ Alternates(items)
    /\ \A i \in 1..Len(items) : ~IsSymIn(items[i], OpenBrackets \cup CloseBrackets)
    /\ (\E i \in 1..Len(items) : IsSym(items[i], "^")) => Len(items) = 3
    /\ \A i \in 1..Len(items) : IsList(items[i]) => WellShaped(items[i].items)

\* C27: for an accepted token sequence the tree made by the four rewrites
\* holds no bracket and no run of unary signs, every list in it is a
\* function name with one argument list or operands alternating with binary
\* operators, and a list that holds ^ has exactly three elements.
C27_TreeShape ==
    got_correct /\ correct =>
        /\ Restructure(tokens).exc = ""
        /\ WellShaped(Restructure(tokens).items)

RECURSIVE ListsOf(_)
\* the list of items and every list below it: the lists that
\* shunting_yard_evaluation is called on when no call raises
ListsOf(items) ==
    {items} \cup UNION {ListsOf(items[i].items) : i \in {j \in 1..Len(items) : IsList(items[j])}}

\* C28: when an accepted token sequence has been evaluated, every call of
\* rpn_evaluation found at least two values on its stack at each operator
\* and ended with exactly one value on it, so that no queued operand was left
\* unused.
C28_StackDiscipline ==
    pc = "returned" /\ status = SUCCESS =>
        \A items \in ListsOf(Restructure(tokens).items) :
            LET stack == StackOf(QueueOf(items, 1, <<>>, <<>>), 1, 0)
            IN  stack.enough /\ stack.left = 1

RECURSIVE Leaves(_)
\* the numbers of the tree, left to right, without the factors -1 that
\* convert_to_no_unaries puts in (no number token is negative)
Leaves(items) ==
    IF items = <<>> THEN <<>>
    ELSE LET token == Head(items)
             first == IF IsList(token) THEN Leaves(token.items)
                      ELSE IF IsNum(token) /\ token # MinusOne THEN <<token>>
                      ELSE <<>>
         IN  first \o Leaves(Tail(items))

\* the number tokens of ts, in order
NumberTokens(ts) == SelectSeq(ts, IsNum)

\* C29: evaluating an accepted token sequence leaves the token list as it
\* was, and the numbers of the restructured tree, read left to right without
\* the inserted factors -1, are the number tokens of the input in their
\* order, each once.
C29_LeavesKeepOrder ==
    /\ [][pc = "correct" /\ pc' # "correct" => tokens' = tokens]_vars
    /\ [](got_correct /\ correct =>
            /\ Restructure(tokens).exc = ""
            /\ Leaves(Restructure(tokens).items) = NumberTokens(tokens))

\* 2 ^ - 1 has been evaluated: the reversed scan met the exponent first
C29_ReversedScanKeepsOrder ==
    /\ pc = "returned" /\ status = SUCCESS
    /\ tokens = <<IntNum(2), Sym("^"), Sym("-"), IntNum(1)>>
    /\ Leaves(Restructure(tokens).items) = <<IntNum(2), IntNum(1)>>

\* the characters of the token named s
Spelled(s) ==
    CASE s = "sin" -> <<"s", "i", "n">>
      [] s = "cos" -> <<"c", "o", "s">>
      [] s = "tan" -> <<"t", "a", "n">>
      [] s = "cot" -> <<"c", "o", "t">>
      [] s = "ln" -> <<"l", "n">>
      [] s = "log" -> <<"l", "o", "g">>
      [] OTHER -> <<s>>

RECURSIVE Covers(_, _, _, _)
\* the tokens ts from the i-th on take the characters of e from position p
\* to its end, one after the other, each character in exactly one token
Covers(e, p, ts, i) ==
    IF i > Len(ts) THEN p = Len(e) + 1
    ELSE IF IsNum(ts[i])
    THEN \E q \in p..Len(e) :
            /\ \A j \in p..q : e[j] \in NumberChars
            /\ get_int_or_decimal_from_string(SubSeq(e, p, q)) = ts[i]
            /\ Covers(e, q + 1, ts, i + 1)
    ELSE /\ StartsAt(e, p, Spelled(ts[i].s))
         /\ Covers(e, p + Len(Spelled(ts[i].s)), ts, i + 1)

\* C30: when get_tokens has lexed a text, its tokens take the characters of
\* the text (without its spaces and one "=" at its end) in order, each
\* character in exactly one token: the character read ahead at the end of a
\* number begins the next token, and none is skipped or read twice.
C30_EveryCharacterOnce ==
    got_tokens /\ tokens # <<>> => Covers(Prepared(expression), 1, tokens, 1)

\* a number, then sin read from the character read ahead, in a text with a
\* space or an "=" to strip
C30_KeywordAfterNumber ==
    /\ got_tokens /\ Len(tokens) >= 2 /\ IsNum(tokens[1]) /\ IsSym(tokens[2], "sin")
    /\ Prepared(expression) # expression

Init == InitWith({e \in GeneratedTexts(MaxTokens) : Representable(e)})
Spec == Init /\ [][Next]_vars
=============================================================================
